---- MODULE Spec2Model ----
(***************************************************************************)
(* Plugin framework: the Loader (registry of descriptors, dependency       *)
(* resolver, init / afterInitAll phases), the conditional event bus        *)
(* (Events: emit / on / checkConditionalTriggers) and the event-driven     *)
(* Registry (constructor: register, core events, initialize).              *)
(***************************************************************************)
EXTENDS Naturals, Sequences, FiniteSets, TLC

(***************************************************************************)
(* Bounds of the model.                                                    *)
(***************************************************************************)
\* Total number of dependsOn entries over all descriptors of one plugin set.
MaxDepsTotal == 3

\* Number of Loader.start calls made on one Loader.
MaxStarts == 2

\* Plugin names of the model (types.ts: Plugin.name is any string).
Names == {"Config", "Database", "Api"}

NoError == [kind |-> "none"]

(***************************************************************************)
(* types.ts: Dependency = { name, optional? }, Plugin = { name, dependsOn?,*)
(* init, afterInitAll? }.  A descriptor of the model records the name and  *)
(* the dependsOn list; whether it has the optional afterInitAll hook is    *)
(* read when Loader.start tests `plugin.afterInitAll` (see AfterEnter).    *)
(***************************************************************************)
Dependency == [name : Names, optional : BOOLEAN]

DepLists(k) == [1..k -> Dependency]

Plugin(n, deps) == [name |-> n, dependsOn |-> deps]

SeqRange(s) == { s[i] : i \in DOMAIN s }

RECURSIVE TotalDeps(_)
TotalDeps(ps) ==
  IF ps = <<>> THEN 0 ELSE Len(Head(ps).dependsOn) + TotalDeps(Tail(ps))

(***************************************************************************)
(* Loader.sortByDependencies (depth-first visit with a path stack).        *)
(* The resolver state is (sorted, visited); a thrown Error ends the whole  *)
(* call and is carried in err.  reached lists, in order, the dependency    *)
(* entries <<plugin, index>> the for-of loop over p.dependsOn came to.     *)
(***************************************************************************)
\* plugins.find((x) => x.name === dep.name): index of the first match, 0 if none.
FindDep(plugins, n) ==
  IF \E i \in DOMAIN plugins : plugins[i].name = n
  THEN CHOOSE i \in DOMAIN plugins :
         /\ plugins[i].name = n
         /\ \A j \in DOMAIN plugins : plugins[j].name = n => i <= j
  ELSE 0

\* stack.includes(p.name)
Includes(stack, n) == \E i \in DOMAIN stack : stack[i] = n

\* A dependency that is not found: optional -> warn and continue, else throw.
SkipsEveryMissing(dep) == TRUE
SkipsNoMissing(dep) == FALSE
MissingIsSkipped(dep) == dep.optional

\* if (stack.includes(p.name)): the plugin being entered is on the current path.
OnStack(stack, n) == Includes(stack, n)

\* sorted.push(p) after the dependencies were visited.
PushSortedFirst(srt, p) == <<p>> \o srt
PushSorted(srt, p) == Append(srt, p)

\* Error(`Circular dependency detected: ${stack.join(" -> ")} -> ${p.name}`)
CircularErrorWithoutStack(stack, n) == [kind |-> "circular", path |-> <<n>>]
CircularErrorClosingFirst(stack, n) == [kind |-> "circular", path |-> <<n>> \o stack]
CircularError(stack, n) == [kind |-> "circular", path |-> Append(stack, n)]

\* Error(`Missing dependency: Plugin "${p.name}" depends on "${dep.name}" ...`)
MissingError(n, d) == [kind |-> "missing", plugin |-> n, dependency |-> d]

RECURSIVE visit(_, _, _, _)
RECURSIVE visitDeps(_, _, _, _, _)

\* (A loop over p.dependsOn that passes over every optional dependency,
\* present or not.)
visitDepsOptionalUnvisited(plugins, p, i, stack, st) ==
  IF st.err # NoError \/ i > Len(p.dependsOn) THEN st
  ELSE LET dep == p.dependsOn[i]
           found == FindDep(plugins, dep.name)
           at == [st EXCEPT !.reached = Append(@, <<p.name, i>>)]
       IN  IF found = 0 \/ dep.optional
           THEN IF MissingIsSkipped(dep)
                THEN visitDeps(plugins, p, i + 1, stack, at)
                ELSE [at EXCEPT !.err = MissingError(p.name, dep.name)]
           ELSE visitDeps(plugins, p, i + 1, stack,
                          visit(plugins, plugins[found], stack, at))

\* (A visit without `if (visited.has(p.name)) return`.)
visitUnmarked(plugins, p, stack, st) ==
  IF st.err # NoError THEN st
  ELSE IF OnStack(stack, p.name)
  THEN [st EXCEPT !.err = CircularError(stack, p.name)]
  ELSE LET st2 == visitDeps(plugins, p, 1, Append(stack, p.name), st)
       IN  IF st2.err # NoError THEN st2
           ELSE [st2 EXCEPT !.visited = @ \cup {p.name},
                            !.sorted = PushSorted(@, p)]

visit(plugins, p, stack, st) ==
  IF st.err # NoError THEN st
  ELSE IF p.name \in st.visited THEN st
  ELSE IF OnStack(stack, p.name)
  THEN [st EXCEPT !.err = CircularError(stack, p.name)]
  ELSE LET st2 == visitDeps(plugins, p, 1, Append(stack, p.name), st)
       IN  IF st2.err # NoError THEN st2
           ELSE [st2 EXCEPT !.visited = @ \cup {p.name},
                            !.sorted = PushSorted(@, p)]

visitDeps(plugins, p, i, stack, st) ==
  IF st.err # NoError \/ i > Len(p.dependsOn) THEN st
  ELSE LET dep == p.dependsOn[i]
           found == FindDep(plugins, dep.name)
           at == [st EXCEPT !.reached = Append(@, <<p.name, i>>)]
       IN  IF found = 0
           THEN IF MissingIsSkipped(dep)
                THEN visitDeps(plugins, p, i + 1, stack, at)
                ELSE [at EXCEPT !.err = MissingError(p.name, dep.name)]
           ELSE visitDeps(plugins, p, i + 1, stack,
                          visit(plugins, plugins[found], stack, at))

\* (The outer loop taking the plugins from the last to the first.)
RECURSIVE visitAllBackwards(_, _, _)
visitAllBackwards(plugins, i, st) ==
  IF st.err # NoError \/ i > Len(plugins) THEN st
  ELSE visitAllBackwards(plugins, i + 1,
                         visit(plugins, plugins[Len(plugins) + 1 - i], <<>>, st))

RECURSIVE visitAll(_, _, _)
visitAll(plugins, i, st) ==
  IF st.err # NoError \/ i > Len(plugins) THEN st
  ELSE visitAll(plugins, i + 1, visit(plugins, plugins[i], <<>>, st))

sortByDependencies(plugins) ==
  visitAll(plugins, 1,
           [sorted |-> <<>>, visited |-> {}, err |-> NoError, reached |-> <<>>])

(***************************************************************************)
(* Events (mod.ts): a Map from event name to { listeners, fired } and the  *)
(* Map conditionalTriggers.  The operators below work on a record b:       *)
(*   b.events    the Map entries; get(e) ?? { listeners: [], fired: false }*)
(*               makes an absent entry read as the empty, unfired one      *)
(*   b.triggers  conditionalTriggers in insertion order; an entry deleted  *)
(*               while a for-of loop is running keeps its place (live is   *)
(*               FALSE) so that the running loops keep their position      *)
(*   b.subs      the listener functions passed to on, numbered in call     *)
(*               order: what the function does when called (does), the     *)
(*               condition and events it was passed with, and whether no   *)
(*               emit of one of these events had been called yet (early),  *)
(*               how many emit calls had been made for each of them by     *)
(*               then (emitted), whether all of them had fired (late),     *)
(*               and whether the events that had fired by then already     *)
(*               satisfied an any/all condition (ready)                    *)
(*   b.calls     how many times each listener function was called          *)
(*   b.saw       for each listener function, the events of its             *)
(*               subscription that had fired when it was last called       *)
(*   b.ran       for each listener function, the listener functions that   *)
(*               had been called when it was last called                   *)
(*   b.emits     how many emit calls were made for each event              *)
(*   b.err       the Error that is propagating, NoError if none            *)
(*   b.inner     a listener has called emit                                *)
(*   b.cut       the events an emit of which was ended by an exception     *)
(*               while it was running the event's listeners                *)
(*   b.displaced the listeners whose any/all trigger was overwritten       *)
(***************************************************************************)
\* Events used by the callers and the listeners of the bus.
TestEvents == {"a", "b", "c"}

CoreEvents == {"core.registered", "core.initializing", "core.initialized"}

\* `plugin.${plugin.name}.initializing`, `plugin.${plugin.name}.initialized`
PluginEvent(n, ph) == "plugin." \o n \o "." \o ph

\* The event names of the model in the order of Array.prototype.sort
\* (comparison of UTF-16 code units).
EventOrder ==
  << "a", "b", "c",
     "core.initialized", "core.initializing", "core.registered",
     "plugin.Api.initialized", "plugin.Api.initializing",
     "plugin.Config.initialized", "plugin.Config.initializing",
     "plugin.Database.initialized", "plugin.Database.initializing" >>

EventNames == SeqRange(EventOrder)

Rank(e) == CHOOSE i \in DOMAIN EventOrder : EventOrder[i] = e

\* [...events].sort()
RECURSIVE SortEvents(_)
SortEvents(s) ==
  IF s = <<>> THEN <<>>
  ELSE LET rest == SortEvents(Tail(s))
           below == SelectSeq(rest, LAMBDA x : Rank(x) <= Rank(Head(s)))
           above == SelectSeq(rest, LAMBDA x : Rank(x) > Rank(Head(s)))
       IN  below \o <<Head(s)>> \o above

\* `${condition}:${sortedEvents.join(",")}`; no event name of the model holds
\* a comma, so the pair determines the string and the string the pair.
buildConditionalKey(condition, evs) ==
  [condition |-> condition, events |-> SortEvents(evs)]

\* What a listener function does when called: it returns, it throws, it
\* throws the first time it is called and returns from then on, or it calls
\* events.emit(event) and returns.
Returns == [kind |-> "returns"]
Throws == [kind |-> "throws"]
ThrowsFirst == [kind |-> "throwsFirst"]
Emits(e) == [kind |-> "emits", event |-> e]

ListenerError(l) == [kind |-> "listener", listener |-> l]
StackOverflow == [kind |-> "overflow"]
InvalidCondition == [kind |-> "invalidCondition"]
UnknownCondition == [kind |-> "unknownCondition"]

\* Number of calls of one listener function the model tells apart: MaxCalls
\* stands for MaxCalls calls or more.
MaxCalls == 2

\* Number of emit calls for one event the model tells apart.
MaxEmits == 2

UpTo(n, max) == IF n < max THEN n + 1 ELSE max

\* Nested emit calls the engine's stack holds before it throws RangeError.
\* Listeners emit the events of TestEvents only, so unless an event is emitted
\* again while its listeners are running at most Cardinality(TestEvents) + 1
\* emit calls are nested; the limit lets every listener of an endless
\* recursion be called MaxCalls times.
StackLimit == MaxCalls * (Cardinality(TestEvents) + 1)

\* new Events(registry)
EmptyBus ==
  [ events    |-> [e \in EventNames |-> [listeners |-> <<>>, fired |-> FALSE]],
    triggers  |-> <<>>,
    subs      |-> <<>>,
    calls     |-> <<>>,
    saw       |-> <<>>,
    ran       |-> <<>>,
    emits     |-> [e \in EventNames |-> 0],
    err       |-> NoError,
    inner     |-> FALSE,
    cut       |-> {},
    displaced |-> {} ]

\* if (target.fired) return;
NeverAlreadyFired(target) == FALSE
AlreadyFired(target) == target.fired

\* this.set(event, { ...target, fired: true })
MarkFired(b, e) == [b EXCEPT !.events[e].fired = TRUE]

\* events.every((ev) => this.get(ev)?.fired)
EveryFiredIsSomeFired(b, evs) == \E k \in DOMAIN evs : b.events[evs[k]].fired
EveryFiredOfSome(b, evs) == evs # <<>> /\ \A k \in DOMAIN evs : b.events[evs[k]].fired
EveryFired(b, evs) == \A k \in DOMAIN evs : b.events[evs[k]].fired

\* events.some((ev) => this.get(ev)?.fired)
SomeFiredIsEveryFired(b, evs) == \A k \in DOMAIN evs : b.events[evs[k]].fired
SomeFired(b, evs) == \E k \in DOMAIN evs : b.events[evs[k]].fired

\* The switch of checkConditionalTriggers: shouldTrigger stays false for a
\* condition that is neither "all" nor "any".
shouldTrigger(b, t) ==
  CASE t.condition = "all" -> EveryFired(b, t.events)
    [] t.condition = "any" -> SomeFired(b, t.events)
    [] OTHER -> FALSE

\* this.conditionalTriggers.delete(key)
deleteTrigger(b, key) ==
  [b EXCEPT !.triggers =
     [i \in DOMAIN @ |-> IF @[i].key = key THEN [@[i] EXCEPT !.live = FALSE] ELSE @[i]]]

\* Index of the entry of the Map under key, 0 if there is none.
TriggerAt(b, key) ==
  IF \E i \in DOMAIN b.triggers : b.triggers[i].live /\ b.triggers[i].key = key
  THEN CHOOSE i \in DOMAIN b.triggers : b.triggers[i].live /\ b.triggers[i].key = key
  ELSE 0

\* this.conditionalTriggers.set(key, trigger): a key that is in the Map keeps
\* its place and gets the new trigger, a new key goes to the end.
setTrigger(b, key, trigger) ==
  LET at == TriggerAt(b, key)
      entry == [key |-> key, condition |-> trigger.condition,
                events |-> trigger.events, listener |-> trigger.listener,
                live |-> TRUE]
  IN  IF at = 0
      THEN [b EXCEPT !.triggers = Append(@, entry)]
      ELSE [b EXCEPT !.triggers[at] = entry,
                     !.displaced = @ \cup {b.triggers[at].listener}]

RECURSIVE emit(_, _, _)
RECURSIVE forEachListener(_, _, _, _, _)
RECURSIVE checkFrom(_, _, _)
RECURSIVE invoke(_, _, _)

\* listener(this.registry.plugins)
invoke(b, l, depth) ==
  LET called == [b EXCEPT !.calls[l] = UpTo(@, MaxCalls),
                          !.saw[l] = {b.subs[l].events[k] : k \in
                                        {j \in DOMAIN b.subs[l].events :
                                           b.events[b.subs[l].events[j]].fired}},
                          !.ran[l] = {m \in DOMAIN b.calls : b.calls[m] > 0}]
  IN  CASE b.subs[l].does.kind = "returns" -> called
        [] b.subs[l].does.kind = "throws" -> [called EXCEPT !.err = ListenerError(l)]
        [] b.subs[l].does.kind = "throwsFirst" ->
             IF b.calls[l] = 0 THEN [called EXCEPT !.err = ListenerError(l)] ELSE called
        [] b.subs[l].does.kind = "emits" ->
             emit([called EXCEPT !.inner = TRUE], b.subs[l].does.event, depth + 1)

\* (A forEach that catches what a listener throws and goes on.)
RECURSIVE forEachListenerIsolated(_, _, _, _, _)
forEachListenerIsolated(b, e, i, n, depth) ==
  IF i > n THEN b
  ELSE forEachListenerIsolated(
         [invoke(b, b.events[e].listeners[i], depth) EXCEPT !.err = NoError],
         e, i + 1, n, depth)

\* target.listeners.forEach(...): the listeners at i..n of the array of e; n is
\* the length of the array when forEach was called.
forEachListener(b, e, i, n, depth) ==
  IF b.err # NoError \/ i > n THEN b
  ELSE forEachListener(invoke(b, b.events[e].listeners[i], depth), e, i + 1, n, depth)

\* The for-of loop of checkConditionalTriggers from entry i of the Map on; the
\* listener is called before the trigger is deleted.
checkFrom(b, i, depth) ==
  IF b.err # NoError \/ i > Len(b.triggers) THEN b
  ELSE LET t == b.triggers[i]
       IN  IF t.live /\ shouldTrigger(b, t)
           THEN LET after == invoke(b, t.listener, depth)
                IN  IF after.err # NoError THEN after
                    ELSE checkFrom(deleteTrigger(after, t.key), i + 1, depth)
           ELSE checkFrom(b, i + 1, depth)

checkConditionalTriggers(b, depth) == checkFrom(b, 1, depth)

\* (An emit that marks the event fired and evaluates the triggers before it
\* calls the listeners of the event.)
emitTriggersFirst(b, e, depth) ==
  IF depth >= StackLimit THEN [b EXCEPT !.err = StackOverflow]
  ELSE IF AlreadyFired(b.events[e]) THEN [b EXCEPT !.emits[e] = UpTo(@, MaxEmits)]
  ELSE LET begun == [b EXCEPT !.emits[e] = UpTo(@, MaxEmits)]
           after == checkConditionalTriggers(MarkFired(begun, e), depth)
       IN  IF after.err # NoError THEN [after EXCEPT !.cut = @ \cup {e}]
           ELSE forEachListener(after, e, 1, Len(b.events[e].listeners), depth)

\* (An emit that marks the event fired although a listener threw.)
emitMarksFiredOnThrow(b, e, depth) ==
  IF depth >= StackLimit THEN [b EXCEPT !.err = StackOverflow]
  ELSE IF AlreadyFired(b.events[e]) THEN [b EXCEPT !.emits[e] = UpTo(@, MaxEmits)]
  ELSE LET begun == [b EXCEPT !.emits[e] = UpTo(@, MaxEmits)]
           after == forEachListener(begun, e, 1, Len(b.events[e].listeners), depth)
       IN  IF after.err # NoError THEN [MarkFired(after, e) EXCEPT !.cut = @ \cup {e}]
           ELSE checkConditionalTriggers(MarkFired(after, e), depth)

\* Events.emit(event), called with depth emit calls on the stack.
emit(b, e, depth) ==
  IF depth >= StackLimit THEN [b EXCEPT !.err = StackOverflow]
  ELSE IF AlreadyFired(b.events[e]) THEN [b EXCEPT !.emits[e] = UpTo(@, MaxEmits)]
  ELSE LET begun == [b EXCEPT !.emits[e] = UpTo(@, MaxEmits)]
           after == forEachListener(begun, e, 1, Len(b.events[e].listeners), depth)
       IN  IF after.err # NoError THEN [after EXCEPT !.cut = @ \cup {e}]
           ELSE checkConditionalTriggers(MarkFired(after, e), depth)

\* const target = this.get(e) ?? { listeners: [], fired: false };
\* target.listeners.push(listener); this.set(e, target)
setFreshTarget(b, e, l) ==
  [b EXCEPT !.events[e] = [listeners |-> Append(@.listeners, l), fired |-> FALSE]]
pushListener(b, e, l) == [b EXCEPT !.events[e].listeners = Append(@, l)]

\* if (trigger.events.length !== 1) throw ...
RejectsEmptyOnly(evs) == Len(evs) = 0
NotExactlyOne(evs) == Len(evs) # 1

\* this.checkConditionalTriggers() at the end of on: a trigger whose condition
\* holds already is fired at once.
checkNothingAfterOn(b, depth) == b
\* (An on that also calls at once a single listener whose event has fired.)
checkAfterOnWithSingles(b, depth) ==
  LET l == Len(b.subs)
  IN  IF b.subs[l].condition = "single" /\ b.events[b.subs[l].events[1]].fired
      THEN checkConditionalTriggers(invoke(b, l, depth), depth)
      ELSE checkConditionalTriggers(b, depth)
checkAfterOn(b, depth) == checkConditionalTriggers(b, depth)

\* Events.on(trigger), the listener of the trigger being a function that does `does`.
on(b, condition, evs, does, depth) ==
  LET l == Len(b.subs) + 1
      made == [b EXCEPT
                 !.subs = Append(@, [does |-> does, condition |-> condition,
                                     events |-> evs,
                                     early |-> \A k \in DOMAIN evs :
                                                 b.emits[evs[k]] = 0,
                                     emitted |-> [k \in DOMAIN evs |->
                                                   b.emits[evs[k]]],
                                     late |-> \A k \in DOMAIN evs :
                                                b.events[evs[k]].fired,
                                     ready |->
                                       \/ /\ condition = "all"
                                          /\ \A k \in DOMAIN evs : b.events[evs[k]].fired
                                       \/ /\ condition = "any"
                                          /\ \E k \in DOMAIN evs : b.events[evs[k]].fired]),
                 !.calls = Append(@, 0),
                 !.saw = Append(@, {}),
                 !.ran = Append(@, {})]
  IN  CASE condition = "single" ->
             IF NotExactlyOne(evs) THEN [b EXCEPT !.err = InvalidCondition]
             ELSE checkAfterOn(pushListener(made, evs[1], l), depth)
        [] condition \in {"any", "all"} ->
             checkAfterOn(
               setTrigger(made, buildConditionalKey(condition, evs),
                          [condition |-> condition, events |-> evs, listener |-> l]),
               depth)
        [] OTHER -> [b EXCEPT !.err = UnknownCondition]

\* The call has returned or thrown and no for-of loop is running: the deleted
\* entries of the Map are gone.
Settle(b) == [b EXCEPT !.triggers = SelectSeq(@, LAMBDA t : t.live)]

(***************************************************************************)
(* Registry (mod.ts): the plugin table, the constructor, register and      *)
(* initialize.  The operators work on a record r:                          *)
(*   r.plugins  the Map _plugins in insertion order                        *)
(*   r.bus      the Events instance of the Registry                        *)
(*   r.log      in order, the register and initialize hooks the Registry   *)
(*              called (with the index of the descriptor in the            *)
(*              constructor's argument) and the events it emitted itself   *)
(* A register hook is absent, or is a function that throws, or a function  *)
(* that makes the events.on calls of `ons` in order and returns.  An       *)
(* initialize hook is "absent", "returns" or "throws".                     *)
(***************************************************************************)
NoHook == [present |-> FALSE, throws |-> FALSE, ons |-> <<>>]
ThrowingHook == [present |-> TRUE, throws |-> TRUE, ons |-> <<>>]
Hook(ons) == [present |-> TRUE, throws |-> FALSE, ons |-> ons]

Subscription(condition, evs, does) ==
  [condition |-> condition, events |-> evs, does |-> does]

RegistryPlugin(n, reg, ini) == [name |-> n, register |-> reg, initialize |-> ini]

Logged(kind, n, index) == [kind |-> kind, name |-> n, index |-> index]

HookError(h, n) == [kind |-> "hook", hook |-> h, plugin |-> n]

\* Error(`Plugin with name '${plugin.name}' is already registered.`)
DuplicateName(n) == [kind |-> "duplicate", plugin |-> n]

\* this.plugins.has(plugin.name)
HasNoPlugin(table, n) == FALSE
HasPlugin(table, n) == \E i \in DOMAIN table : table[i].name = n

\* The body of a register hook: its events.on calls from the i-th on.
RECURSIVE callOns(_, _, _)
callOns(b, ons, i) ==
  IF b.err # NoError \/ i > Len(ons) THEN b
  ELSE callOns(on(b, ons[i].condition, ons[i].events, ons[i].does, 0), ons, i + 1)

\* (A register that stores the descriptor before it looks for the name.)
registerSetsFirst(r, plugin, index) ==
  IF HasPlugin(r.plugins, plugin.name)
  THEN [r EXCEPT !.plugins = [k \in DOMAIN @ |->
                                IF @[k].name = plugin.name THEN plugin ELSE @[k]],
                 !.bus.err = DuplicateName(plugin.name)]
  ELSE LET set == [r EXCEPT !.plugins = Append(@, plugin)]
           entered == [set EXCEPT !.log = Append(@, Logged("register", plugin.name, index))]
       IN  IF ~plugin.register.present THEN set
           ELSE IF plugin.register.throws
           THEN [entered EXCEPT !.bus.err = HookError("register", plugin.name)]
           ELSE [entered EXCEPT !.bus = callOns(@, plugin.register.ons, 1)]

\* Registry.register(plugin), plugin being the index-th descriptor supplied.
register(r, plugin, index) ==
  IF HasPlugin(r.plugins, plugin.name)
  THEN [r EXCEPT !.bus.err = DuplicateName(plugin.name)]
  ELSE LET set == [r EXCEPT !.plugins = Append(@, plugin)]
           entered == [set EXCEPT !.log = Append(@, Logged("register", plugin.name, index))]
       IN  IF ~plugin.register.present THEN set
           ELSE IF plugin.register.throws
           THEN [entered EXCEPT !.bus.err = HookError("register", plugin.name)]
           ELSE [entered EXCEPT !.bus = callOns(@, plugin.register.ons, 1)]

\* plugins.forEach((plugin) => this.register(plugin)) from the i-th descriptor on.
RECURSIVE registerFrom(_, _, _)
registerFrom(r, supplied, i) ==
  IF r.bus.err # NoError \/ i > Len(supplied) THEN r
  ELSE registerFrom(register(r, supplied[i], i), supplied, i + 1)

\* this.events.emit(event) in the constructor and in initialize; nothing is
\* executed once an Error propagates.
emitEvent(r, e) ==
  IF r.bus.err # NoError THEN r
  ELSE [r EXCEPT !.log = Append(@, Logged("emit", e, 0)),
                 !.bus = emit(@, e, 0)]

\* (An initialize that calls no hook.)
initializeHookNotCalled(r, plugin, i) == r

\* (An initialize that calls the hook without emitting plugin.X.initializing.)
initializeHookUnannounced(r, plugin, i) ==
  IF plugin.initialize = "absent" THEN r
  ELSE LET called == [r EXCEPT !.log = Append(@, Logged("initialize", plugin.name, i))]
       IN  IF plugin.initialize = "throws"
           THEN [called EXCEPT !.bus.err = HookError("initialize", plugin.name)]
           ELSE called

\* if (plugin.initialize) { emit(`plugin.X.initializing`); plugin.initialize(); }
\* The value the hook returns is dropped: a hook that is an async function
\* ("async") has returned its promise when the call is over.
initializeHook(r, plugin, i) ==
  IF plugin.initialize = "absent" THEN r
  ELSE LET announced == emitEvent(r, PluginEvent(plugin.name, "initializing"))
           called == [announced EXCEPT
                        !.log = Append(@, Logged("initialize", plugin.name, i))]
       IN  IF announced.bus.err # NoError THEN announced
           ELSE IF plugin.initialize = "throws"
           THEN [called EXCEPT !.bus.err = HookError("initialize", plugin.name)]
           ELSE called

\* (An initialize that emits plugin.X.initialized inside the if only.)
RECURSIVE initializeFromHookedOnly(_, _)
initializeFromHookedOnly(r, i) ==
  IF r.bus.err # NoError \/ i > Len(r.plugins) THEN r
  ELSE initializeFromHookedOnly(
         IF r.plugins[i].initialize = "absent" THEN r
         ELSE emitEvent(initializeHook(r, r.plugins[i], i),
                        PluginEvent(r.plugins[i].name, "initialized")),
         i + 1)

\* Registry.initialize: the for-of loop over _plugins.values() from the i-th on.
RECURSIVE initializeFrom(_, _)
initializeFrom(r, i) ==
  IF r.bus.err # NoError \/ i > Len(r.plugins) THEN r
  ELSE initializeFrom(
         emitEvent(initializeHook(r, r.plugins[i], i),
                   PluginEvent(r.plugins[i].name, "initialized")),
         i + 1)

\* The constructor without its last statement.
constructWithoutInitialized(supplied) ==
  initializeFrom(
    emitEvent(emitEvent(registerFrom([plugins |-> <<>>, bus |-> EmptyBus, log |-> <<>>],
                                     supplied, 1),
                        "core.registered"),
              "core.initializing"),
    1)

\* The constructor calling initialize before it emits core.initializing.
constructInitializeEarly(supplied) ==
  emitEvent(
    emitEvent(
      initializeFrom(
        emitEvent(registerFrom([plugins |-> <<>>, bus |-> EmptyBus, log |-> <<>>],
                               supplied, 1),
                  "core.registered"),
        1),
      "core.initializing"),
    "core.initialized")

\* new Registry(plugins)
construct(supplied) ==
  LET registered == registerFrom([plugins |-> <<>>, bus |-> EmptyBus, log |-> <<>>],
                                 supplied, 1)
      announced == emitEvent(emitEvent(registered, "core.registered"),
                             "core.initializing")
  IN  emitEvent(initializeFrom(announced, 1), "core.initialized")

(***************************************************************************)
(* State.                                                                  *)
(*   registry  Loader.registry: the descriptors in Map insertion order     *)
(*   pc        position of the running Loader.start call                   *)
(*   sorted    the local array `sorted` of Loader.start                    *)
(*   idx       index of the for-of loop of Loader.start in progress        *)
(*   trace     hook invocations (begin / end) of the current start call    *)
(*   error     the Error thrown by the last failed operation of the Loader *)
(*   starts    number of Loader.start calls made                           *)
(*   reached   the dependency entries the resolver's traversal came to     *)
(* pc, sorted, idx and trace describe the latest start call and are kept   *)
(* until the next call made on the Loader.                                 *)
(*   events               the entries of the Events Map                    *)
(*   conditionalTriggers  Events.conditionalTriggers in insertion order    *)
(*   listeners            the listener functions passed to on (b.subs)     *)
(*   calls                the calls of each listener function so far       *)
(*   saw                  the events of its subscription that had fired    *)
(*                        when each listener function was last called      *)
(*   ranBefore            the listener functions that had been called when *)
(*                        each listener function was last called           *)
(*   emits                the emit calls made for each event so far        *)
(*   thrown               the Error thrown by the last call on the bus or  *)
(*                        by the Registry constructor                      *)
(*   seen                 what has happened on the bus so far: a listener  *)
(*                        or the stack limit threw, a listener called      *)
(*                        emit, the events whose emit was cut, the         *)
(*                        listeners whose trigger was overwritten          *)
(*   pluginTable          Registry._plugins in insertion order             *)
(*   supplied             the argument of the Registry constructor         *)
(*   log                  the hooks called and the events emitted by the   *)
(*                        Registry, in order                               *)
(*   built                "no" before the constructor is called, then      *)
(*                        "yes" if it returned, "failed" if it threw       *)
(*   other                a second Registry of the same process: its       *)
(*                        Events instance (bus), its _plugins (plugins)    *)
(*                        and how its constructor ended (built)            *)
(***************************************************************************)
VARIABLES registry, pc, sorted, idx, trace, error, starts, reached,
          events, conditionalTriggers, listeners, calls, saw, ranBefore, emits,
          thrown, seen,
          pluginTable, supplied, log, built, other

loaderVars == <<registry, pc, sorted, idx, trace, error, starts, reached>>
busVars ==
  <<events, conditionalTriggers, listeners, calls, saw, ranBefore, emits, thrown, seen>>
registryVars == <<pluginTable, supplied, log, built, other>>
vars == <<loaderVars, busVars, registryVars>>

\* The Events instance as the record the bus operators work on.
Bus ==
  [ events    |-> events,
    triggers  |-> conditionalTriggers,
    subs      |-> listeners,
    calls     |-> calls,
    saw       |-> saw,
    ran       |-> ranBefore,
    emits     |-> emits,
    err       |-> NoError,
    inner     |-> seen.inner,
    cut       |-> seen.cut,
    displaced |-> seen.displaced ]

\* The Events instance after a call that left it as b.
BusBecomes(b) ==
  /\ events' = b.events
  /\ conditionalTriggers' = Settle(b).triggers
  /\ listeners' = b.subs
  /\ calls' = b.calls
  /\ saw' = b.saw
  /\ ranBefore' = b.ran
  /\ emits' = b.emits
  /\ thrown' = b.err
  /\ seen' = [ threw     |-> seen.threw \/ b.err.kind \in {"listener", "overflow"},
               inner     |-> b.inner,
               cut       |-> b.cut,
               displaced |-> b.displaced ]

Init ==
  /\ registry = <<>>
  /\ pc = "idle"
  /\ sorted = <<>>
  /\ idx = 0
  /\ trace = <<>>
  /\ error = NoError
  /\ starts = 0
  /\ reached = <<>>
  /\ events = EmptyBus.events
  /\ conditionalTriggers = <<>>
  /\ listeners = <<>>
  /\ calls = <<>>
  /\ saw = <<>>
  /\ ranBefore = <<>>
  /\ emits = EmptyBus.emits
  /\ thrown = NoError
  /\ seen = [threw |-> FALSE, inner |-> FALSE, cut |-> {}, displaced |-> {}]
  /\ pluginTable = <<>>
  /\ supplied = <<>>
  /\ log = <<>>
  /\ built = "no"
  /\ other = [bus |-> EmptyBus, plugins |-> <<>>, built |-> "no"]

(***************************************************************************)
(* Registry (registry.ts): register, all.                                  *)
(***************************************************************************)
\* this.plugins.has(plugin.name)
RegistryHas(reg, n) == \E i \in DOMAIN reg : reg[i].name = n

\* No Loader.start call is suspended at an await.
Quiescent == pc \in {"idle", "done", "failed"}

\* Loader.registerPlugin -> Registry.register: plugins.set for a new name.
registerPlugin(p) ==
  /\ Quiescent
  /\ ~RegistryHas(registry, p.name)
  /\ TotalDeps(registry) + Len(p.dependsOn) <= MaxDepsTotal
  /\ registry' = Append(registry, p)
  /\ error' = NoError
  /\ pc' = "idle"
  /\ sorted' = <<>>
  /\ idx' = 0
  /\ trace' = <<>>
  /\ UNCHANGED <<starts, reached>>
  /\ UNCHANGED <<busVars, registryVars>>

\* Loader.registerPlugin -> Registry.register: a registered name throws.
registerDuplicate(n) ==
  /\ Quiescent
  /\ RegistryHas(registry, n)
  /\ error' = [kind |-> "duplicate", plugin |-> n]
  /\ pc' = "idle"
  /\ sorted' = <<>>
  /\ idx' = 0
  /\ trace' = <<>>
  /\ UNCHANGED <<registry, starts, reached>>
  /\ UNCHANGED <<busVars, registryVars>>

(***************************************************************************)
(* Loader.start.  The function runs to its first await, and each action    *)
(* below is one continuation: from the resumption of an await to the next  *)
(* await or to the end of the function.                                    *)
(***************************************************************************)
Reverse(s) == [i \in 1..Len(s) |-> s[Len(s) + 1 - i]]

HookEvent(h, n, ph) == [hook |-> h, name |-> n, ph |-> ph]

\* Order of the second loop: `for (const plugin of sorted.reverse())`.
FinalizeOrderNotReversed(srt) == srt
FinalizeOrder(srt) == Reverse(srt)

\* The second loop from position `from` of the reversed array: the plugins at
\* from..j-1 have no afterInitAll (`if (plugin.afterInitAll)` is false: "absent")
\* and are passed over, the hook of the plugin at j is called and awaited; j
\* past the end ends the function.
PassedOver(rev, from, j) ==
  [i \in 1..(j - from) |-> HookEvent("afterInitAll", rev[from + i - 1].name, "absent")]

AfterEnter(rev, from, tr) ==
  \E j \in from..(Len(rev) + 1) :
    /\ sorted' = rev
    /\ IF j <= Len(rev)
       THEN /\ trace' = tr \o PassedOver(rev, from, j)
                           \o <<HookEvent("afterInitAll", rev[j].name, "begin")>>
            /\ idx' = j
            /\ pc' = "afterAwait"
       ELSE /\ trace' = tr \o PassedOver(rev, from, j)
            /\ idx' = 0
            /\ pc' = "done"

\* sortByDependencies threw: start rejects before any hook is called.
StartFails ==
  /\ Quiescent
  /\ starts < MaxStarts
  /\ sortByDependencies(registry).err # NoError
  /\ error' = sortByDependencies(registry).err
  /\ pc' = "failed"
  /\ sorted' = <<>>
  /\ idx' = 0
  /\ trace' = <<>>
  /\ starts' = starts + 1
  /\ UNCHANGED <<registry, reached>>
  /\ UNCHANGED <<busVars, registryVars>>

\* (A start that calls the first registered init hook before resolving.)
StartInitUnresolved ==
  /\ Quiescent
  /\ starts < MaxStarts
  /\ registry # <<>>
  /\ sorted' = registry
  /\ idx' = 1
  /\ trace' = <<HookEvent("init", registry[1].name, "begin")>>
  /\ pc' = "initAwait"
  /\ error' = NoError
  /\ starts' = starts + 1
  /\ UNCHANGED <<registry, reached>>
  /\ UNCHANGED <<busVars, registryVars>>

\* The first loop calls init of the first plugin of the order and awaits it.
StartInit ==
  /\ Quiescent
  /\ starts < MaxStarts
  /\ LET r == sortByDependencies(registry)
     IN  /\ r.err = NoError
         /\ r.sorted # <<>>
         /\ sorted' = r.sorted
         /\ idx' = 1
         /\ trace' = <<HookEvent("init", r.sorted[1].name, "begin")>>
         /\ pc' = "initAwait"
  /\ error' = NoError
  /\ starts' = starts + 1
  /\ UNCHANGED <<registry, reached>>
  /\ UNCHANGED <<busVars, registryVars>>

\* No plugin is registered: both loops are empty.
StartEmpty ==
  /\ Quiescent
  /\ starts < MaxStarts
  /\ sortByDependencies(registry).err = NoError
  /\ sortByDependencies(registry).sorted = <<>>
  /\ sorted' = <<>>
  /\ idx' = 0
  /\ trace' = <<>>
  /\ pc' = "done"
  /\ error' = NoError
  /\ starts' = starts + 1
  /\ UNCHANGED <<registry, reached>>
  /\ UNCHANGED <<busVars, registryVars>>

\* (A first loop that calls the next init without awaiting the previous one.)
InitNextUnawaited ==
  /\ pc = "initAwait"
  /\ idx < Len(sorted)
  /\ trace' = Append(trace, HookEvent("init", sorted[idx + 1].name, "begin"))
  /\ idx' = idx + 1
  /\ UNCHANGED <<registry, pc, sorted, error, starts, reached>>
  /\ UNCHANGED <<busVars, registryVars>>

\* `await plugin.init(this)` resumes normally and the first loop goes on.
InitNext ==
  /\ pc = "initAwait"
  /\ idx < Len(sorted)
  /\ trace' = trace \o <<HookEvent("init", sorted[idx].name, "end"),
                         HookEvent("init", sorted[idx + 1].name, "begin")>>
  /\ idx' = idx + 1
  /\ UNCHANGED <<registry, pc, sorted, error, starts, reached>>
  /\ UNCHANGED <<busVars, registryVars>>

\* The last init resumes normally: the second loop starts.
InitLast ==
  /\ pc = "initAwait"
  /\ idx = Len(sorted)
  /\ AfterEnter(FinalizeOrder(sorted), 1,
                Append(trace, HookEvent("init", sorted[idx].name, "end")))
  /\ UNCHANGED <<registry, error, starts, reached>>
  /\ UNCHANGED <<busVars, registryVars>>

\* (A start that calls afterInitAll of the plugin whose init failed before it
\* rejects.)
InitThrowsThenFinalizes ==
  /\ pc = "initAwait"
  /\ trace' = trace \o <<HookEvent("init", sorted[idx].name, "throw"),
                         HookEvent("afterInitAll", sorted[idx].name, "begin"),
                         HookEvent("afterInitAll", sorted[idx].name, "end")>>
  /\ error' = HookError("init", sorted[idx].name)
  /\ pc' = "failed"
  /\ UNCHANGED <<registry, sorted, idx, starts, reached>>
  /\ UNCHANGED <<busVars, registryVars>>

\* init threw or its promise rejected: start rejects.
InitThrows ==
  /\ pc = "initAwait"
  /\ trace' = Append(trace, HookEvent("init", sorted[idx].name, "throw"))
  /\ error' = HookError("init", sorted[idx].name)
  /\ pc' = "failed"
  /\ UNCHANGED <<registry, sorted, idx, starts, reached>>
  /\ UNCHANGED <<busVars, registryVars>>

\* `await plugin.afterInitAll(this)` resumes normally and the loop goes on.
AfterNext ==
  /\ pc = "afterAwait"
  /\ AfterEnter(sorted, idx + 1,
                Append(trace, HookEvent("afterInitAll", sorted[idx].name, "end")))
  /\ UNCHANGED <<registry, error, starts, reached>>
  /\ UNCHANGED <<busVars, registryVars>>

\* afterInitAll threw or its promise rejected: start rejects.
AfterThrows ==
  /\ pc = "afterAwait"
  /\ trace' = Append(trace, HookEvent("afterInitAll", sorted[idx].name, "throw"))
  /\ error' = HookError("afterInitAll", sorted[idx].name)
  /\ pc' = "failed"
  /\ UNCHANGED <<registry, sorted, idx, starts, reached>>
  /\ UNCHANGED <<busVars, registryVars>>

\* The dependsOn lists of the descriptors supplied to a Loader that is started:
\* none, one or two required dependencies (the lists of Config, Database and
\* Api of the end-to-end example among them), a required and an optional
\* dependency on a plugin that may be absent, on itself or on a dependent.
Required(n) == [name |-> n, optional |-> FALSE]
Optional(n) == [name |-> n, optional |-> TRUE]

DependsOnSamples ==
  { <<>>,
    <<Required("Config")>>,
    <<Required("Database")>>,
    <<Required("Config"), Required("Database")>>,
    <<Required("Api")>>,
    <<Optional("Api")>> }

Register ==
  \/ \E n \in Names : \E d \in DependsOnSamples : registerPlugin(Plugin(n, d))
  \/ \E n \in Names : registerDuplicate(n)

Next ==
  \/ Register
  \/ StartFails
  \/ StartInit
  \/ StartEmpty
  \/ InitNext
  \/ InitLast
  \/ InitThrows
  \/ AfterNext
  \/ AfterThrows

Spec == Init /\ [][Next]_vars

(***************************************************************************)
(* The resolver alone: descriptors are registered one by one, then         *)
(* sortByDependencies is applied once to Registry.all().                   *)
(***************************************************************************)
\* const sorted = this.sortByDependencies(this.registry.all())
Resolve ==
  /\ pc = "idle"
  /\ LET r == sortByDependencies(registry)
     IN  /\ sorted' = r.sorted
         /\ error' = r.err
         /\ reached' = r.reached
         /\ pc' = IF r.err = NoError THEN "resolved" ELSE "failed"
  /\ UNCHANGED <<registry, idx, trace, starts>>
  /\ UNCHANGED <<busVars, registryVars>>

NextSort ==
  \/ \E n \in Names : \E k \in 0..(MaxDepsTotal - TotalDeps(registry)) :
       \E d \in DepLists(k) : pc = "idle" /\ registerPlugin(Plugin(n, d))
  \/ Resolve

SpecSort == Init /\ [][NextSort]_vars

(***************************************************************************)
(* The event bus driven by its callers: on and emit calls made from        *)
(* outside listeners on one Events instance.  Each call runs to its end    *)
(* (listeners are called synchronously inside it).                         *)
(***************************************************************************)
\* Number of listener functions subscribed to one Events instance.
MaxListeners == 2

\* The conditions passed to on; "each" is not one of the ConditionType values.
Conditions == {"single", "any", "all", "each"}

\* The event lists passed to on.
EventLists == {<<>>, <<"a">>, <<"b">>, <<"a", "b">>, <<"b", "a">>}

\* What the subscribed listener functions do.
Behaviours == {Returns, Throws, Emits("a"), Emits("b")}

\* events.on({ condition, events: evs, listener })
On(condition, evs, does) ==
  /\ Len(listeners) < MaxListeners
  /\ BusBecomes(on(Bus, condition, evs, does, 0))
  /\ UNCHANGED <<loaderVars, registryVars>>

\* events.emit(e)
Emit(e) ==
  /\ emits[e] < MaxEmits
  /\ BusBecomes(emit(Bus, e, 0))
  /\ UNCHANGED <<loaderVars, registryVars>>

NextEvents ==
  \/ \E condition \in Conditions : \E evs \in EventLists : \E does \in Behaviours :
       On(condition, evs, does)
  \/ \E e \in TestEvents : Emit(e)

SpecEvents == Init /\ [][NextEvents]_vars

(***************************************************************************)
(* The Registry constructor applied to a list of descriptors.  The         *)
(* constructor is synchronous: it runs to its end or to the first Error.   *)
(***************************************************************************)
\* Number of descriptors supplied to the constructor.
MaxPlugins == 3

\* The register hooks of the descriptors: none, one that throws, the hook of
\* the test (a single listener on core.initialized), the hooks of the README's
\* DatabasePlugin and APIPlugin.
RegisterHooks ==
  { NoHook,
    ThrowingHook,
    Hook(<<Subscription("single", <<"core.initialized">>, Returns)>>),
    Hook(<<Subscription("all", <<PluginEvent("Config", "initialized")>>, Returns)>>),
    Hook(<<Subscription("all", <<PluginEvent("Config", "initialized"),
                                 PluginEvent("Database", "initialized")>>, Returns),
           Subscription("any", <<PluginEvent("Config", "initialized"),
                                 PluginEvent("Database", "initialized")>>, Returns)>>) }

InitializeHooks == {"absent", "returns", "throws"}

\* The descriptors supplied; the initialize hook of a descriptor whose register
\* hook throws is never looked at, so one such descriptor per name is enough.
RegistryPlugins ==
  { p \in { RegistryPlugin(n, reg, ini) :
              n \in Names, reg \in RegisterHooks, ini \in InitializeHooks } :
      p.register.throws => p.initialize = "absent" }

\* The README's ConfigPlugin, DatabasePlugin and APIPlugin (named Config,
\* Database and Api here) in the order of `new Registry([...])`.
ReadmePlugins ==
  << RegistryPlugin("Config", NoHook, "returns"),
     RegistryPlugin("Database",
       Hook(<<Subscription("all", <<PluginEvent("Config", "initialized")>>, Returns)>>),
       "absent"),
     RegistryPlugin("Api",
       Hook(<<Subscription("all", <<PluginEvent("Config", "initialized"),
                                    PluginEvent("Database", "initialized")>>, Returns),
              Subscription("any", <<PluginEvent("Config", "initialized"),
                                    PluginEvent("Database", "initialized")>>, Returns)>>),
       "returns") >>

\* new Registry(plugins)
NewRegistry(plugins) ==
  /\ LET r == construct(plugins)
     IN  /\ BusBecomes(r.bus)
         /\ pluginTable' = r.plugins
         /\ log' = r.log
         /\ built' = IF r.bus.err = NoError THEN "yes" ELSE "failed"
  /\ supplied' = plugins
  /\ UNCHANGED <<loaderVars, other>>

\* One Registry is constructed.
NextRegistry ==
  /\ built = "no"
  /\ \E k \in 0..MaxPlugins : \E plugins \in [1..k -> RegistryPlugins] :
       NewRegistry(plugins)

SpecRegistry == Init /\ [][NextRegistry]_vars

(***************************************************************************)
(* The Registry constructor applied to descriptors whose initialize hook   *)
(* may be an async function.  The call `plugin.initialize()` runs the      *)
(* function to its first await and returns a promise, which the            *)
(* constructor drops; the rest of the function (its tail) runs after the   *)
(* constructor, which is synchronous, has returned.  The log gets a        *)
(* "settled" entry when the tail of a hook has run to its end.             *)
(***************************************************************************)
AsyncPlugins ==
  { RegistryPlugin(n, reg, ini) :
      n \in Names,
      reg \in {NoHook, Hook(<<Subscription("single", <<"core.initialized">>, Returns)>>)},
      ini \in {"absent", "returns", "async"} }

\* The async initialize hook of the index-th descriptor was called and its
\* tail has not run to its end.
TailPending(index) ==
  /\ index \in DOMAIN supplied
  /\ supplied[index].initialize = "async"
  /\ \E k \in DOMAIN log : log[k] = Logged("initialize", supplied[index].name, index)
  /\ ~\E k \in DOMAIN log : log[k] = Logged("settled", supplied[index].name, index)

\* The tail of the initialize hook of the index-th descriptor runs to its end.
InitializeSettles(index) ==
  /\ built = "yes"
  /\ TailPending(index)
  /\ log' = Append(log, Logged("settled", supplied[index].name, index))
  /\ UNCHANGED <<loaderVars, busVars, pluginTable, supplied, built, other>>

NextAsync ==
  \/ /\ built = "no"
     /\ \E k \in 0..MaxPlugins : \E plugins \in [1..k -> AsyncPlugins] :
          NewRegistry(plugins)
  \/ \E index \in 1..MaxPlugins : InitializeSettles(index)

SpecAsync == Init /\ [][NextAsync]_vars

(***************************************************************************)
(* Two Registry instances in one process, each with its Events instance.   *)
(* A Registry keeps _plugins and events in fields of its own, an Events    *)
(* instance keeps its entries in the Map it extends and its                *)
(* conditionalTriggers in a field of its own: what a call writes through   *)
(* `this` lands in the instance the call was made on.  The first instance  *)
(* is the one of the specifications above, the second is `other`.          *)
(***************************************************************************)
\* Number of listener functions subscribed to each of the two instances.
TwoListeners == 1

\* Number of emit calls made from outside for one event of one instance.
TwoEmits == 1

TwoConditions == {"single", "any", "all"}

TwoEventLists == {<<"a">>, <<"a", "b">>}

TwoBehaviours == {Returns, Emits("b")}

TwoEvents == {"a", "b"}

\* The descriptors supplied to the two constructors: none, or one plugin
\* without hooks, or the plugin of the test that listens on core.initialized.
TwoPlugins ==
  { RegistryPlugin("Config", reg, "returns") :
      reg \in {NoHook, Hook(<<Subscription("single", <<"core.initialized">>, Returns)>>)} }

\* What one Registry holds: its Events instance and its _plugins.
Instance(b, table) == [bus |-> b, plugins |-> table]

\* The instances of the process.
Instances ==
  << Instance(Bus, pluginTable),
     Instance([other.bus EXCEPT !.err = NoError], other.plugins) >>

\* (A conditionalTriggers declared static: one Map for all Events instances.)
fieldsWithStaticTriggers(heap, id, inst) ==
  [j \in DOMAIN heap |->
     IF j = id THEN inst
     ELSE [heap[j] EXCEPT !.bus.triggers = inst.bus.triggers]]

\* The fields after a call on the id-th instance left that instance as inst:
\* _plugins, events, the Map entries and conditionalTriggers are instance
\* fields, no other instance has them.
fields(heap, id, inst) == [heap EXCEPT ![id] = inst]

\* The process after a call on the id-th instance that left the instances as
\* heap and the constructor status of the id-th as status.
TwoBecome(id, heap, status) ==
  /\ IF id = 1 \/ heap[1] # Instances[1]
     THEN BusBecomes(heap[1].bus) /\ pluginTable' = heap[1].plugins
     ELSE UNCHANGED <<busVars, pluginTable>>
  /\ built' = IF id = 1 THEN status ELSE built
  /\ other' = IF id = 2 \/ heap[2] # Instances[2]
              THEN [ bus     |-> Settle(heap[2].bus),
                     plugins |-> heap[2].plugins,
                     built   |-> IF id = 2 THEN status ELSE other.built ]
              ELSE other

BuiltOf(id) == IF id = 1 THEN built ELSE other.built

\* new Registry(plugins), the id-th of the process
NewRegistryOf(id, plugins) ==
  /\ BuiltOf(id) = "no"
  /\ LET r == construct(plugins)
     IN  /\ TwoBecome(id, fields(Instances, id, Instance(r.bus, r.plugins)),
                      IF r.bus.err = NoError THEN "yes" ELSE "failed")
         /\ log' = IF id = 1 THEN r.log ELSE log
  /\ supplied' = IF id = 1 THEN plugins ELSE supplied
  /\ UNCHANGED loaderVars

\* events.on({ condition, events: evs, listener }) on the id-th instance
OnOf(id, condition, evs, does) ==
  /\ BuiltOf(id) = "yes"
  /\ Len(Instances[id].bus.subs) < TwoListeners
  /\ TwoBecome(id,
               fields(Instances, id,
                      Instance(on(Instances[id].bus, condition, evs, does, 0),
                               Instances[id].plugins)),
               "yes")
  /\ UNCHANGED <<loaderVars, supplied, log>>

\* events.emit(e) on the id-th instance
EmitOf(id, e) ==
  /\ BuiltOf(id) = "yes"
  /\ Instances[id].bus.emits[e] < TwoEmits
  /\ TwoBecome(id,
               fields(Instances, id,
                      Instance(emit(Instances[id].bus, e, 0), Instances[id].plugins)),
               "yes")
  /\ UNCHANGED <<loaderVars, supplied, log>>

NextTwo ==
  \/ \E id \in 1..2 : \E k \in 0..1 : \E plugins \in [1..k -> TwoPlugins] :
       NewRegistryOf(id, plugins)
  \/ \E id \in 1..2 : \E condition \in TwoConditions : \E evs \in TwoEventLists :
       \E does \in TwoBehaviours : OnOf(id, condition, evs, does)
  \/ \E id \in 1..2 : \E e \in TwoEvents : EmitOf(id, e)

SpecTwo == Init /\ [][NextTwo]_vars

(***************************************************************************)
(* The event bus with listeners that fail once: on and emit calls on one   *)
(* Events instance whose listener functions return, or throw the first     *)
(* time they are called and return afterwards, so that an emit that was    *)
(* ended by an exception can be made again and run to its end.             *)
(***************************************************************************)
\* Number of listener functions subscribed to the instance.
CutListeners == 3

CutConditions == {"single", "any", "all"}

CutEventLists == {<<"a">>, <<"b">>}

CutBehaviours == {Returns, ThrowsFirst}

CutEvents == {"a", "b"}

\* events.on({ condition, events: evs, listener })
OnCut(condition, evs, does) ==
  /\ Len(listeners) < CutListeners
  /\ BusBecomes(on(Bus, condition, evs, does, 0))
  /\ UNCHANGED <<loaderVars, registryVars>>

\* events.emit(e)
EmitCut(e) ==
  /\ emits[e] < MaxEmits
  /\ BusBecomes(emit(Bus, e, 0))
  /\ UNCHANGED <<loaderVars, registryVars>>

NextCut ==
  \/ \E condition \in CutConditions : \E evs \in CutEventLists : \E does \in CutBehaviours :
       OnCut(condition, evs, does)
  \/ \E e \in CutEvents : EmitCut(e)

SpecCut == Init /\ [][NextCut]_vars

(***************************************************************************)
(* The dependency graph of a plugin set, stated apart from the resolver.   *)
(***************************************************************************)
NamesOf(ps) == [i \in 1..Len(ps) |-> ps[i].name]

\* <<p, d>>: p declares a dependency (required or optional) on d, and d is supplied.
Edges(reg) ==
  UNION { { <<reg[i].name, reg[i].dependsOn[k].name>> :
              k \in { k \in DOMAIN reg[i].dependsOn :
                        RegistryHas(reg, reg[i].dependsOn[k].name) } } :
          i \in DOMAIN reg }

\* Transitive closure: paths through the names of via, one name at a time.
RECURSIVE ClosureVia(_, _)
ClosureVia(R, via) ==
  IF via = {} THEN R
  ELSE LET n == CHOOSE x \in via : TRUE
           into == { e[1] : e \in { e \in R : e[2] = n } }
           from == { e[2] : e \in { e \in R : e[1] = n } }
       IN  ClosureVia(R \cup (into \X from), via \ {n})

Closure(R) == ClosureVia(R, Names)

Acyclic(reg) == LET c == Closure(Edges(reg)) IN \A n \in Names : <<n, n>> \notin c

\* Every dependency that is absent from the set is marked optional.
NoMissingRequired(reg) ==
  \A i \in DOMAIN reg : \A k \in DOMAIN reg[i].dependsOn :
    RegistryHas(reg, reg[i].dependsOn[k].name) \/ reg[i].dependsOn[k].optional

\* In order, every occurrence of a comes before every occurrence of b, and both occur.
StrictlyBefore(order, a, b) ==
  /\ Includes(order, a)
  /\ Includes(order, b)
  /\ \A i, j \in DOMAIN order : order[i] = a /\ order[j] = b => i < j

DependenciesFirst(order, reg) ==
  \A i \in DOMAIN reg : \A k \in DOMAIN reg[i].dependsOn :
    RegistryHas(reg, reg[i].dependsOn[k].name) =>
      StrictlyBefore(order, reg[i].dependsOn[k].name, reg[i].name)

Resolved == pc \in {"resolved", "failed"}

(***************************************************************************)
(* C1.  For every plugin set whose dependency graph is acyclic and that    *)
(* has no missing required dependency, sortByDependencies returns an order *)
(* (it does not throw) in which every declared dependency present in the   *)
(* set, required or optional, comes strictly before the plugin declaring   *)
(* it.                                                                     *)
(***************************************************************************)
C1_DependenciesBeforeDependents ==
  (Resolved /\ Acyclic(registry) /\ NoMissingRequired(registry)) =>
    /\ pc = "resolved"
    /\ DependenciesFirst(NamesOf(sorted), registry)

\* A chain registered dependents first, one edge optional: the order is reversed.
C1_Witness ==
  /\ pc = "resolved"
  /\ Len(registry) = 3
  /\ registry[1].dependsOn = <<Required(registry[2].name)>>
  /\ registry[2].dependsOn = <<Optional(registry[3].name)>>
  /\ registry[3].dependsOn = <<>>
  /\ NamesOf(sorted) = Reverse(NamesOf(registry))

(***************************************************************************)
(* C2.  For every plugin set with no missing required dependency whose     *)
(* dependency graph has a cycle (a mutual pair, a self-dependency, a       *)
(* longer cycle), sortByDependencies returns no order: it throws the       *)
(* circular-dependency error, and the reported path ends with a cycle of   *)
(* the graph: from the first occurrence of its last name on, each name     *)
(* declares a dependency on the next, so every plugin of the detected      *)
(* cycle is named in the path; for the mutual pair both names are.         *)
(***************************************************************************)
FirstIndex(path, n) == CHOOSE i \in DOMAIN path : path[i] = n /\ \A j \in 1..(i - 1) : path[j] # n

\* The plugins that lie on some cycle of the graph.
OnCycle(reg) == LET c == Closure(Edges(reg)) IN { n \in Names : <<n, n>> \in c }

\* The graph has one cycle only: its plugins reach each other and each has a
\* single dependency among them.
SingleCycle(reg) ==
  LET c == Closure(Edges(reg))
      cyc == { n \in Names : <<n, n>> \in c }
  IN  /\ cyc # {}
      /\ \A n, m \in cyc : <<n, m>> \in c
      /\ \A n \in cyc : Cardinality({ m \in cyc : <<n, m>> \in Edges(reg) }) = 1

PathClosesCycle(path, reg) ==
  /\ Len(path) >= 2
  /\ LET last == path[Len(path)]
         from == FirstIndex(path, last)
     IN  /\ from < Len(path)
         /\ \A j \in from..(Len(path) - 1) : <<path[j], path[j + 1]>> \in Edges(reg)
  /\ SingleCycle(reg) => \A n \in OnCycle(reg) : Includes(path, n)

C2_CycleIsReported ==
  (Resolved /\ NoMissingRequired(registry) /\ ~Acyclic(registry)) =>
    /\ pc = "failed"
    /\ error.kind = "circular"
    /\ PathClosesCycle(error.path, registry)

\* The mutual pair A -> B -> A, reported with both names.
C2_Witness ==
  /\ pc = "failed"
  /\ error.kind = "circular"
  /\ Len(registry) = 2
  /\ registry[1].dependsOn = <<Required(registry[2].name)>>
  /\ registry[2].dependsOn = <<Required(registry[1].name)>>
  /\ error.path = <<registry[1].name, registry[2].name, registry[1].name>>

(***************************************************************************)
(* C3.  A dependency entry the traversal comes to that is not marked       *)
(* optional and names a plugin that is not in the set makes                *)
(* sortByDependencies throw the missing-dependency error, which names the  *)
(* declaring plugin and the missing dependency.  Hence a set with a        *)
(* missing required dependency never yields an order, and when its graph   *)
(* is acyclic the error is the missing-dependency error; the error always  *)
(* names a plugin of the set and a required, absent dependency of it.      *)
(***************************************************************************)
PluginNamed(reg, n) == reg[FindDep(reg, n)]

RequiredAndAbsent(reg, n, k) ==
  /\ ~PluginNamed(reg, n).dependsOn[k].optional
  /\ ~RegistryHas(reg, PluginNamed(reg, n).dependsOn[k].name)

HookNames(tr, h, phs) ==
  LET sel == SelectSeq(tr, LAMBDA e : e.hook = h /\ e.ph \in phs)
  IN  [i \in 1..Len(sel) |-> sel[i].name]

InitBegun == HookNames(trace, "init", {"begin"})
AfterBegun == HookNames(trace, "afterInitAll", {"begin"})
AfterTested == HookNames(trace, "afterInitAll", {"begin", "absent"})

Count(seq, x) == Cardinality({ i \in DOMAIN seq : seq[i] = x })

IsPrefix(a, b) == Len(a) <= Len(b) /\ \A i \in DOMAIN a : a[i] = b[i]

\* A start call was made and no other call on the Loader since.
Started == pc \in {"initAwait", "afterAwait", "done", "failed"}

\* The first loop of start ran to its end.
InitPhaseOver ==
  \/ pc \in {"afterAwait", "done"}
  \/ pc = "failed" /\ error.kind = "hook" /\ error.hook = "afterInitAll"

(***************************************************************************)
(* C4.  When every dependency absent from the registered set is marked     *)
(* optional and the graph is acyclic, start raises no resolver error, the  *)
(* order holds every registered plugin exactly once, the one declaring the *)
(* absent optional dependency included, and once the first loop of start   *)
(* has run the init hook of every one of them has been invoked once.       *)
(***************************************************************************)
C4_AbsentOptionalIsNoError ==
  (Started /\ Acyclic(registry) /\ NoMissingRequired(registry)) =>
    /\ error.kind \notin {"missing", "circular"}
    /\ Len(sorted) = Len(registry)
    /\ \A i \in DOMAIN registry : Count(NamesOf(sorted), registry[i].name) = 1
    /\ InitPhaseOver => \A i \in DOMAIN registry : Count(InitBegun, registry[i].name) = 1

\* A plugin whose only dependency is optional and absent went through init.
C4_Witness ==
  /\ pc = "done"
  /\ \E i \in DOMAIN registry :
       /\ Len(registry[i].dependsOn) = 1
       /\ registry[i].dependsOn[1].optional
       /\ ~RegistryHas(registry, registry[i].dependsOn[1].name)
       /\ Count(InitBegun, registry[i].name) = 1

(***************************************************************************)
(* C5.  When the resolver fails (a missing required dependency or a        *)
(* cycle), start fails with the resolver's error and no init hook and no   *)
(* afterInitAll hook of any plugin has been invoked.                       *)
(***************************************************************************)
C5_NoPartialStartup ==
  /\ (Started /\ ~(Acyclic(registry) /\ NoMissingRequired(registry))) =>
       /\ pc = "failed"
       /\ error.kind \in {"missing", "circular"}
       /\ trace = <<>>
  /\ (pc = "failed" /\ error.kind \in {"missing", "circular"}) => trace = <<>>

\* The second of two plugins lacks a required dependency: the hook of the first,
\* which the resolver had already ordered, did not run either.
C5_Witness ==
  /\ pc = "failed"
  /\ error.kind = "missing"
  /\ Len(registry) = 2
  /\ error.plugin = registry[2].name
  /\ registry[1].dependsOn = <<>>
  /\ trace = <<>>

(***************************************************************************)
(* C6.  In a start call, init hooks are invoked in the resolver's output   *)
(* order; afterInitAll is tested and, where present, invoked in the exact  *)
(* reverse of that order; no afterInitAll hook begins before the init hook *)
(* of every plugin has completed; a successful start has gone through both *)
(* orders entirely.  For Config, Database (depends on Config) and Api      *)
(* (depends on Config and Database) the init order is Config, Database,    *)
(* Api and the afterInitAll order is Api, Database, Config.                *)
(***************************************************************************)
ResolverOrder == NamesOf(sortByDependencies(registry).sorted)

ExampleSet ==
  { Plugin("Config", <<>>),
    Plugin("Database", <<Required("Config")>>),
    Plugin("Api", <<Required("Config"), Required("Database")>>) }

C6_InitOrderThenReverse ==
  (Started /\ sortByDependencies(registry).err = NoError) =>
    /\ IsPrefix(InitBegun, ResolverOrder)
    /\ IsPrefix(AfterTested, Reverse(ResolverOrder))
    /\ \A j \in DOMAIN trace :
         trace[j].hook = "afterInitAll" =>
           \A k \in DOMAIN ResolverOrder :
             \E i \in 1..(j - 1) : trace[i] = HookEvent("init", ResolverOrder[k], "end")
    /\ pc = "done" =>
         /\ InitBegun = ResolverOrder
         /\ AfterTested = Reverse(ResolverOrder)
         /\ SeqRange(registry) = ExampleSet =>
              /\ InitBegun = <<"Config", "Database", "Api">>
              /\ AfterTested = <<"Api", "Database", "Config">>

\* The example registered in another order, every plugin with an afterInitAll hook.
C6_Witness ==
  /\ pc = "done"
  /\ SeqRange(registry) = ExampleSet
  /\ registry[1].name = "Api"
  /\ InitBegun = <<"Config", "Database", "Api">>
  /\ AfterBegun = <<"Api", "Database", "Config">>

(***************************************************************************)
(* Readings of a Registry construction.                                    *)
(***************************************************************************)
\* s[j] bears the name of a descriptor supplied before it.
Repeats(s, j) == \E i \in 1..(j - 1) : s[i].name = s[j].name

\* The index of the first descriptor of s that repeats a name, 0 if the names
\* of s are distinct; and the index of the descriptor whose name it repeats.
SecondOfPair(s) ==
  IF \E j \in DOMAIN s : Repeats(s, j)
  THEN CHOOSE j \in DOMAIN s : Repeats(s, j) /\ \A k \in 1..(j - 1) : ~Repeats(s, k)
  ELSE 0

FirstOfPair(s) ==
  CHOOSE i \in 1..(SecondOfPair(s) - 1) : s[i].name = s[SecondOfPair(s)].name

\* The positions of the log at which a hook (register, initialize) of the
\* index-th descriptor was called.
HookCalls(index) ==
  { k \in DOMAIN log : log[k].kind \in {"register", "initialize"} /\ log[k].index = index }

\* The register calls of the descriptors before the j-th that have the hook.
RegisterCallsBefore(s, j) ==
  LET with == SelectSeq([k \in 1..(j - 1) |-> k], LAMBDA k : s[k].register.present)
  IN  [m \in DOMAIN with |-> Logged("register", s[with[m]].name, with[m])]

Watched(l) == SeqRange(listeners[l].events)

\* The trigger listener l was subscribed with is in conditionalTriggers.
Pending(l) == \E i \in DOMAIN conditionalTriggers : conditionalTriggers[i].listener = l

\* No listener has thrown, the stack limit was not hit, and every emit so far
\* was called from outside listeners.
PlainCallsOnly == ~seen.threw /\ ~seen.inner

(***************************************************************************)
(* C8.  An emit of an event that has fired changes nothing: no fired flag, *)
(* no listener list, no pending trigger, and no listener of any kind is    *)
(* called.  Hence, through every sequence of emit calls made from outside  *)
(* listeners, a single listener subscribed before the first emit of its    *)
(* event has been called exactly once as soon as the event has fired,      *)
(* however many emits of the event follow, and not at all before (an emit  *)
(* that a throwing listener cut short does not fire the event and is left  *)
(* aside).                                                                 *)
(***************************************************************************)
C8_EmitOfFiredEventIsNoOp ==
  /\ [](\A l \in DOMAIN listeners :
          (/\ listeners[l].condition = "single"
           /\ listeners[l].early
           /\ ~seen.inner
           /\ listeners[l].events[1] \notin seen.cut) =>
            calls[l] = IF events[listeners[l].events[1]].fired THEN 1 ELSE 0)
  /\ [][\A e \in TestEvents :
          (events[e].fired /\ Emit(e)) =>
            /\ UNCHANGED <<events, conditionalTriggers, listeners, calls>>
            /\ thrown' = NoError]_vars

\* A single listener subscribed before two emits of its event, called once.
C8_Witness ==
  \E l \in DOMAIN listeners :
    /\ listeners[l].condition = "single"
    /\ listeners[l].early
    /\ PlainCallsOnly
    /\ emits[listeners[l].events[1]] = 2
    /\ events[listeners[l].events[1]].fired
    /\ calls[l] = 1

(***************************************************************************)
(* C9.  Through every sequence of emit calls made from outside listeners   *)
(* (no listener throwing, the subscription not overwritten by a later one  *)
(* with the same condition and events), the listener of an `all`           *)
(* subscription has not been called as long as one of its events has not   *)
(* fired, and has been called exactly once from the moment the last of     *)
(* them has fired, whatever the order of the emits and however many emits  *)
(* follow; its trigger is pending exactly until then.                      *)
(***************************************************************************)
C9_AllFiresOnceWhenComplete ==
  PlainCallsOnly =>
    \A l \in DOMAIN listeners :
      (listeners[l].condition = "all" /\ l \notin seen.displaced) =>
        /\ calls[l] = IF \A e \in Watched(l) : events[e].fired THEN 1 ELSE 0
        /\ Pending(l) <=> calls[l] = 0

\* An `all` subscription over a and b made before any emit of them; both have
\* fired, a was emitted twice, and the listener was called once.
C9_Witness ==
  \E l \in DOMAIN listeners :
    /\ listeners[l].condition = "all"
    /\ Watched(l) = {"a", "b"}
    /\ listeners[l].early
    /\ PlainCallsOnly
    /\ emits["a"] = 2 /\ emits["b"] = 1
    /\ events["a"].fired /\ events["b"].fired
    /\ calls[l] = 1

(***************************************************************************)
(* C10.  Through every sequence of emit calls made from outside listeners  *)
(* (no listener throwing, the subscription not overwritten by a later one  *)
(* with the same condition and events), the listener of an `any`           *)
(* subscription has been called exactly once from the first emit of one of *)
(* its events on, and is not called again when the other events are        *)
(* emitted; before that emit it has not been called.                       *)
(***************************************************************************)
C10_AnyFiresOnceAtFirst ==
  PlainCallsOnly =>
    \A l \in DOMAIN listeners :
      (listeners[l].condition = "any" /\ l \notin seen.displaced) =>
        /\ calls[l] = IF \E e \in Watched(l) : events[e].fired THEN 1 ELSE 0
        /\ Pending(l) <=> calls[l] = 0

\* An `any` subscription over a and b made before any emit of them; both have
\* been emitted and the listener was called once.
C10_Witness ==
  \E l \in DOMAIN listeners :
    /\ listeners[l].condition = "any"
    /\ Watched(l) = {"a", "b"}
    /\ listeners[l].early
    /\ PlainCallsOnly
    /\ emits["a"] = 1 /\ emits["b"] = 1
    /\ events["a"].fired /\ events["b"].fired
    /\ calls[l] = 1

(***************************************************************************)
(* C11.  An `all` subscription made when every one of its events has fired *)
(* and an `any` subscription made when at least one of its events has      *)
(* fired have their listener called exactly once by the time on returns,   *)
(* and it is not called again by any emit or on that follows (calls made   *)
(* from outside listeners, no listener throwing): the count is 1 in every  *)
(* state from the return of on onwards.  The trigger is not left pending   *)
(* and is never overwritten.                                               *)
(***************************************************************************)
C11_SatisfiedSubscriptionFiresInOn ==
  PlainCallsOnly =>
    \A l \in DOMAIN listeners :
      listeners[l].ready => calls[l] = 1 /\ ~Pending(l) /\ l \notin seen.displaced

\* An `any` subscription over a and b made when only a had fired and an `all`
\* subscription over a and b made when both had: each listener was called
\* once, and a has been emitted again since it fired.
C11_Witness ==
  \E l, m \in DOMAIN listeners :
    /\ listeners[l].condition = "any" /\ listeners[m].condition = "all"
    /\ Watched(l) = {"a", "b"} /\ Watched(m) = {"a", "b"}
    /\ listeners[l].ready /\ listeners[m].ready
    /\ saw[l] = {"a"} /\ saw[m] = {"a", "b"}
    /\ PlainCallsOnly
    /\ emits["a"] = 2
    /\ calls[l] = 1 /\ calls[m] = 1

(***************************************************************************)
(* Readings of the bus of a Registry.                                      *)
(***************************************************************************)
\* The listener functions subscribed with condition and evs.
Subscribed(condition, evs) ==
  { l \in DOMAIN listeners :
      listeners[l].condition = condition /\ listeners[l].events = evs }

(***************************************************************************)
(* C12.  A `single` listener that a register hook subscribes to            *)
(* core.initialized has been called exactly once when the Registry         *)
(* constructor returns; it has not been called if the constructor throws.  *)
(***************************************************************************)
C12_CoreInitializedListenerCalledOnce ==
  \A l \in Subscribed("single", <<"core.initialized">>) :
    /\ built = "yes" => calls[l] = 1 /\ events["core.initialized"].fired
    /\ built = "failed" => calls[l] = 0

\* Two descriptors, each with the register hook of the test and an initialize
\* hook: both listeners were called once by the constructor.
C12_Witness ==
  /\ built = "yes"
  /\ Len(supplied) = 2
  /\ \A k \in 1..2 :
       /\ supplied[k].register =
            Hook(<<Subscription("single", <<"core.initialized">>, Returns)>>)
       /\ supplied[k].initialize = "returns"
  /\ Subscribed("single", <<"core.initialized">>) = {1, 2}
  /\ calls = <<1, 1>>

\* The positions of the log at which the Registry emitted e, called a hook of
\* kind h, emitted an event of a plugin.
EmitsOf(e) == { k \in DOMAIN log : log[k].kind = "emit" /\ log[k].name = e }

HooksOf(h) == { k \in DOMAIN log : log[k].kind = h }

PluginEmits == { k \in DOMAIN log : log[k].kind = "emit" /\ log[k].name \notin CoreEvents }

\* Every position of ks is before every position of js.
AllBefore(ks, js) == \A k \in ks : \A j \in js : k < j

(***************************************************************************)
(* C13.  In a Registry construction the phases run strictly forward: every *)
(* register hook is called (and, being synchronous, has returned) before   *)
(* core.registered is emitted; core.registered is emitted before           *)
(* core.initializing; every event of a plugin and every initialize hook    *)
(* comes after core.initializing and before core.initialized; no register  *)
(* hook runs after an initialize hook; no core event is emitted twice, and *)
(* each is emitted exactly once by a constructor that returns.             *)
(***************************************************************************)
C13_PhasesRunForward ==
  /\ AllBefore(HooksOf("register"), EmitsOf("core.registered"))
  /\ AllBefore(HooksOf("register"), HooksOf("initialize"))
  /\ AllBefore(EmitsOf("core.registered"), EmitsOf("core.initializing"))
  /\ AllBefore(EmitsOf("core.initializing"), HooksOf("initialize") \cup PluginEmits)
  /\ AllBefore(HooksOf("initialize") \cup PluginEmits, EmitsOf("core.initialized"))
  /\ AllBefore(EmitsOf("core.initializing"), EmitsOf("core.initialized"))
  /\ (HooksOf("initialize") \cup PluginEmits # {}) =>
       EmitsOf("core.registered") # {} /\ EmitsOf("core.initializing") # {}
  /\ EmitsOf("core.initializing") # {} => EmitsOf("core.registered") # {}
  /\ EmitsOf("core.initialized") # {} => EmitsOf("core.initializing") # {}
  /\ \A e \in CoreEvents :
       /\ Cardinality(EmitsOf(e)) <= 1
       /\ built = "yes" => Cardinality(EmitsOf(e)) = 1 /\ events[e].fired

\* Two descriptors with a register and an initialize hook each: two register
\* hooks, core.registered, core.initializing, twice (initializing, hook,
\* initialized), core.initialized.
C13_Witness ==
  /\ built = "yes"
  /\ Len(supplied) = 2
  /\ \A k \in 1..2 : supplied[k].register.present /\ supplied[k].initialize = "returns"
  /\ Len(log) = 11
  /\ HooksOf("register") = {1, 2}
  /\ EmitsOf("core.registered") = {3}
  /\ EmitsOf("core.initializing") = {4}
  /\ HooksOf("initialize") = {6, 9}
  /\ EmitsOf("core.initialized") = {11}

(***************************************************************************)
(* C14.  An on call with condition `single` and an event list that does    *)
(* not hold exactly one event throws the invalid-condition error, and an   *)
(* on call with a condition that is none of single, any, all throws the    *)
(* unknown-condition error.  Either call leaves the bus as it was: no      *)
(* listener is added to an event, no trigger is stored, overwritten or     *)
(* removed, no listener is called and no event is marked fired.            *)
(***************************************************************************)
C14_RejectedSubscriptionChangesNothing ==
  [][/\ \A evs \in {x \in EventLists : Len(x) # 1} : \A does \in Behaviours :
          On("single", evs, does) => thrown' = InvalidCondition
     /\ \A condition \in Conditions \ {"single", "any", "all"} :
          \A evs \in EventLists : \A does \in Behaviours :
            On(condition, evs, does) => thrown' = UnknownCondition
     /\ thrown' \in {InvalidCondition, UnknownCondition} =>
          UNCHANGED <<events, conditionalTriggers, listeners, calls, saw, ranBefore,
                      emits, seen>>]_vars

\* A rejected on call on a bus that holds a pending `all` trigger over two
\* events one of which has fired.
C14_Witness ==
  /\ thrown \in {InvalidCondition, UnknownCondition}
  /\ Len(listeners) = 1
  /\ calls = <<0>>
  /\ \E i \in DOMAIN conditionalTriggers :
       /\ conditionalTriggers[i].condition = "all"
       /\ Len(conditionalTriggers[i].events) = 2
       /\ \E k \in DOMAIN conditionalTriggers[i].events :
            events[conditionalTriggers[i].events[k]].fired

\* The hook calls of the trace that have begun and not ended.
InProgress ==
  { j \in DOMAIN trace :
      /\ trace[j].ph = "begin"
      /\ ~\E k \in (j + 1)..Len(trace) :
            /\ trace[k].hook = trace[j].hook
            /\ trace[k].name = trace[j].name
            /\ trace[k].ph \in {"end", "throw"} }

(***************************************************************************)
(* C15.  In Loader.start hooks never overlap: a hook call that has begun   *)
(* ends (returns, its promise settled, or throws) before anything else     *)
(* happens in the run, so the next init or afterInitAll begins only after  *)
(* the previous hook has completed and at most one hook is in progress at  *)
(* any time; one is in progress exactly while start is suspended at an     *)
(* await.                                                                  *)
(***************************************************************************)
C15_HooksNeverOverlap ==
  /\ Cardinality(InProgress) <= 1
  /\ \A j \in DOMAIN trace :
       (trace[j].ph = "begin" /\ j < Len(trace)) =>
         /\ trace[j + 1].hook = trace[j].hook
         /\ trace[j + 1].name = trace[j].name
         /\ trace[j + 1].ph \in {"end", "throw"}
  /\ InProgress # {} <=> pc \in {"initAwait", "afterAwait"}
  /\ InProgress # {} => InProgress = {Len(trace)}

\* Three plugins: the three init hooks have begun and ended one after the
\* other, and the second afterInitAll is in progress.
C15_Witness ==
  /\ pc = "afterAwait"
  /\ Len(sorted) = 3
  /\ Len(trace) = 9
  /\ \A j \in 1..3 :
       /\ trace[2 * j - 1] = HookEvent("init", trace[2 * j].name, "begin")
       /\ trace[2 * j].ph = "end"
  /\ trace[7].ph = "begin" /\ trace[8].ph = "end"
  /\ InProgress = {9}

(***************************************************************************)
(* C16.  new Registry([ConfigPlugin, DatabasePlugin, APIPlugin]) of the    *)
(* README returns, and when it returns the `all` listener of               *)
(* DatabasePlugin over plugin.ConfigPlugin.initialized and the `all` and   *)
(* the `any` listener of APIPlugin over plugin.ConfigPlugin.initialized    *)
(* and plugin.DatabasePlugin.initialized have been called exactly once     *)
(* each, the `all` listener of APIPlugin at a moment when both events had  *)
(* fired, the `any` listener when the first of them had.  The same holds   *)
(* for the three plugins supplied in any other order.                      *)
(***************************************************************************)
C16_ReadmeExampleFiresEachListenerOnce ==
  (/\ built # "no"
   /\ Len(supplied) = 3
   /\ SeqRange(supplied) = SeqRange(ReadmePlugins)) =>
    LET config == PluginEvent("Config", "initialized")
        database == PluginEvent("Database", "initialized")
    IN  /\ built = "yes"
        /\ Len(listeners) = 3
        /\ \A l \in DOMAIN listeners : calls[l] = 1
        /\ conditionalTriggers = <<>>
        /\ \A l \in Subscribed("all", <<config>>) : saw[l] = {config}
        /\ \A l \in Subscribed("all", <<config, database>>) : saw[l] = {config, database}
        /\ \A l \in Subscribed("any", <<config, database>>) :
             Cardinality(saw[l]) = 1 /\ saw[l] \subseteq {config, database}
        /\ Cardinality(Subscribed("all", <<config>>)) = 1
        /\ Cardinality(Subscribed("all", <<config, database>>)) = 1
        /\ Cardinality(Subscribed("any", <<config, database>>)) = 1

\* The construction of the README, in its order.
C16_Witness ==
  /\ built = "yes"
  /\ supplied = ReadmePlugins
  /\ calls = <<1, 1, 1>>
  /\ listeners[2].condition = "all" /\ Len(listeners[2].events) = 2
  /\ saw[2] = Watched(2)
  /\ saw[3] = {PluginEvent("Config", "initialized")}

\* The names of s are distinct.
DistinctNames(s) == \A i, j \in DOMAIN s : s[i].name = s[j].name => i = j

\* How many times the Registry called hook h of the index-th descriptor of s.
TimesCalled(h, s, index) ==
  Cardinality({ k \in DOMAIN log : log[k] = Logged(h, s[index].name, index) })

(***************************************************************************)
(* C17.  The constructor applied to descriptors with distinct names, none  *)
(* of whose hooks throws, returns; it has called the register hook of      *)
(* every descriptor that has one exactly once and the initialize hook of   *)
(* every descriptor that has one exactly once, and every descriptor is in  *)
(* the plugin table under its name.                                        *)
(***************************************************************************)
C17_EachHookOnceAndPluginsRetrievable ==
  (/\ built # "no"
   /\ DistinctNames(supplied)
   /\ \A k \in DOMAIN supplied :
        ~supplied[k].register.throws /\ supplied[k].initialize # "throws") =>
    /\ built = "yes"
    /\ \A k \in DOMAIN supplied :
         /\ TimesCalled("register", supplied, k) =
              IF supplied[k].register.present THEN 1 ELSE 0
         /\ TimesCalled("initialize", supplied, k) =
              IF supplied[k].initialize = "absent" THEN 0 ELSE 1
         /\ \E i \in DOMAIN pluginTable : pluginTable[i] = supplied[k]
         /\ Cardinality({ i \in DOMAIN pluginTable :
                            pluginTable[i].name = supplied[k].name }) = 1
    /\ Len(pluginTable) = Len(supplied)
    /\ HooksOf("register") \cup HooksOf("initialize") =
         { j \in DOMAIN log : \E k \in DOMAIN supplied :
             log[j] \in {Logged("register", supplied[k].name, k),
                         Logged("initialize", supplied[k].name, k)} }

\* Three descriptors with distinct names, each with a register and an
\* initialize hook.
C17_Witness ==
  /\ built = "yes"
  /\ Len(supplied) = 3
  /\ DistinctNames(supplied)
  /\ \A k \in 1..3 :
       /\ supplied[k].register.present
       /\ supplied[k].initialize = "returns"
       /\ TimesCalled("register", supplied, k) = 1
       /\ TimesCalled("initialize", supplied, k) = 1
  /\ pluginTable = supplied

\* The condition listener l was subscribed with holds on the events fired.
ConditionHolds(l) ==
  \/ listeners[l].condition = "all" /\ \A e \in Watched(l) : events[e].fired
  \/ listeners[l].condition = "any" /\ \E e \in Watched(l) : events[e].fired

\* l and m are two any/all subscriptions with the same condition and the same
\* set of events.
SameTrigger(l, m) ==
  /\ l # m
  /\ listeners[l].condition \in {"any", "all"}
  /\ listeners[l].condition = listeners[m].condition
  /\ Watched(l) = Watched(m)

(***************************************************************************)
(* C18.  Two any/all subscriptions with the same condition and the same    *)
(* set of events are independent entries: the second does not replace the  *)
(* first; both stay pending until the condition holds, and when it holds   *)
(* both listeners have been called, each exactly once (calls made from     *)
(* outside listeners, no listener throwing).                               *)
(***************************************************************************)
C18_SameKeySubscriptionsAreIndependent ==
  PlainCallsOnly =>
    \A l, m \in DOMAIN listeners :
      SameTrigger(l, m) =>
        IF ConditionHolds(l)
        THEN calls[l] = 1 /\ calls[m] = 1
        ELSE Pending(l) /\ Pending(m)

\* Two `all` subscriptions over a and b, in either order of the events, made
\* before any emit; a and b have fired: the listener subscribed first was
\* never called and its trigger is gone, the second was called once.
C18_Witness ==
  /\ PlainCallsOnly
  /\ Len(listeners) = 2
  /\ SameTrigger(1, 2)
  /\ listeners[1].condition = "all"
  /\ listeners[1].events = <<"a", "b">> /\ listeners[2].events = <<"b", "a">>
  /\ listeners[1].early /\ listeners[2].early
  /\ events["a"].fired /\ events["b"].fired
  /\ calls = <<0, 1>>
  /\ conditionalTriggers = <<>>
  /\ seen.displaced = {1}

\* What the initialization phase logs for the descriptors of s from the i-th
\* on when no hook throws: plugin.X.initializing and the hook for a descriptor
\* that has an initialize hook, then plugin.X.initialized for every descriptor.
RECURSIVE InitializationOf(_, _)
InitializationOf(s, i) ==
  IF i > Len(s) THEN <<>>
  ELSE (IF s[i].initialize = "absent" THEN <<>>
        ELSE << Logged("emit", PluginEvent(s[i].name, "initializing"), 0),
                Logged("initialize", s[i].name, i) >>)
       \o << Logged("emit", PluginEvent(s[i].name, "initialized"), 0) >>
       \o InitializationOf(s, i + 1)

\* The log between the emits of core.initializing and core.initialized.
InitializationPhase ==
  LET from == CHOOSE k \in EmitsOf("core.initializing") : TRUE
      to == CHOOSE k \in EmitsOf("core.initialized") : TRUE
  IN  SubSeq(log, from + 1, to - 1)

C20_TriggerFiresAtMostOnce ==
  ~seen.threw =>
    \A l \in DOMAIN listeners :
      listeners[l].condition \in {"any", "all"} =>
        /\ calls[l] <= 1
        /\ calls[l] = 1 => ~Pending(l)

\* One subscription on the bus, `any` over a with a listener that emits b,
\* and one emit of a from outside: the listener has been called twice, and
\* nothing was thrown.
C20_Witness ==
  /\ ~seen.threw
  /\ thrown = NoError
  /\ Len(listeners) = 1
  /\ listeners[1].condition = "any"
  /\ listeners[1].events = <<"a">>
  /\ listeners[1].does = Emits("b")
  /\ emits["a"] = 1 /\ emits["c"] = 0
  /\ events["a"].fired /\ events["b"].fired
  /\ calls[1] = 2
  /\ conditionalTriggers = <<>>

\* Listener l is a single listener that emits the event it is subscribed to.
EmitsOwnEvent(l) ==
  /\ listeners[l].condition = "single"
  /\ listeners[l].does = Emits(listeners[l].events[1])

(***************************************************************************)
(* C21.  An event is marked fired before its listeners are called, so a    *)
(* single listener that emits the event it is subscribed to finds it fired:*)
(* the inner emit returns at once, the listener is not called a second     *)
(* time, and the outer emit returns (no stack overflow when it is the only *)
(* listener on the bus).                                                   *)
(***************************************************************************)
C21_SelfEmitShortCircuits ==
  \A l \in DOMAIN listeners :
    EmitsOwnEvent(l) =>
      /\ calls[l] <= 1
      /\ Len(listeners) = 1 => thrown # StackOverflow
      /\ (Len(listeners) = 1 /\ emits[listeners[l].events[1]] > 0) =>
           events[listeners[l].events[1]].fired

\* The only listener on the bus is a single listener on a that emits a; one
\* emit of a from outside has ended in the stack overflow, the listener was
\* called MaxCalls times or more and a has not fired.
C21_Witness ==
  /\ Len(listeners) = 1
  /\ EmitsOwnEvent(1)
  /\ listeners[1].events = <<"a">>
  /\ thrown = StackOverflow
  /\ calls[1] = MaxCalls
  /\ ~events["a"].fired
  /\ emits["b"] = 0 /\ emits["c"] = 0

(***************************************************************************)
(* C22.  A first emit of an event calls the single listeners of the event  *)
(* in subscription order, then marks the event fired, then evaluates the   *)
(* pending any/all triggers (calls made from outside listeners, no         *)
(* listener throwing).  So a single listener is called while its event is  *)
(* not yet fired; of two single listeners of one event the one subscribed  *)
(* first is called first; and when the listener of an any/all trigger is   *)
(* called, every single listener subscribed before the emit of an event    *)
(* the trigger then sees fired has been called already.                    *)
(***************************************************************************)
C22_SinglesThenFiredThenTriggers ==
  PlainCallsOnly =>
    /\ \A s \in DOMAIN listeners :
         (listeners[s].condition = "single" /\ calls[s] > 0) =>
           /\ saw[s] = {}
           /\ events[listeners[s].events[1]].fired
    /\ \A s, m \in DOMAIN listeners :
         (/\ s < m
          /\ listeners[s].condition = "single" /\ listeners[m].condition = "single"
          /\ listeners[s].events = listeners[m].events
          /\ calls[m] > 0) =>
           /\ calls[s] > 0
           /\ s \in ranBefore[m]
           /\ m \notin ranBefore[s]
    /\ \A t, s \in DOMAIN listeners :
         (/\ listeners[t].condition \in {"any", "all"}
          /\ calls[t] > 0
          /\ listeners[s].condition = "single"
          /\ listeners[s].early
          /\ listeners[s].events[1] \in saw[t]) =>
           /\ calls[s] > 0
           /\ s \in ranBefore[t]
           /\ t \notin ranBefore[s]

\* An `any` subscription over a and b and then a single listener on a, both
\* made before any emit; a was emitted: the single listener was called before
\* a was marked fired and before the listener of the trigger.
C22_Witness ==
  /\ PlainCallsOnly
  /\ Len(listeners) = 2
  /\ listeners[1].condition = "any" /\ Watched(1) = {"a", "b"}
  /\ listeners[2].condition = "single" /\ listeners[2].events = <<"a">>
  /\ listeners[1].early /\ listeners[2].early
  /\ emits["a"] = 1 /\ emits["b"] = 0
  /\ calls = <<1, 1>>
  /\ saw = <<{"a"}, {}>>
  /\ ranBefore = <<{2}, {}>>

\* The first listener in the array of e that throws, 0 if none does or a
\* listener before it emits.
FirstThrower(e) ==
  LET ls == events[e].listeners
      throwers == { k \in DOMAIN ls :
                      /\ listeners[ls[k]].does = Throws
                      /\ \A j \in 1..(k - 1) : listeners[ls[j]].does = Returns }
  IN  IF throwers = {} THEN 0 ELSE ls[CHOOSE k \in throwers : TRUE]

(***************************************************************************)
(* C23.  When a single listener throws during emit, the error reaches the  *)
(* caller of emit and the listeners subscribed after it to the same event  *)
(* are not called by that emit: an emit of an unfired event whose first    *)
(* throwing listener comes after listeners that return ends with that      *)
(* listener's error, has called the listeners before it and it, and none   *)
(* after it; so a single listener subscribed after one that throws on the  *)
(* same event is never called.                                             *)
(***************************************************************************)
C23_ThrowAbortsDelivery ==
  /\ [](\A l, m \in DOMAIN listeners :
          (/\ l < m
           /\ listeners[l].condition = "single" /\ listeners[m].condition = "single"
           /\ listeners[l].events = listeners[m].events
           /\ listeners[l].does = Throws) => calls[m] = 0)
  /\ [][\A e \in TestEvents :
          (/\ ~events[e].fired
           /\ FirstThrower(e) # 0
           /\ emits[e] < MaxEmits
           /\ emits'[e] = emits[e] + 1
           /\ Emit(e)) =>
            /\ thrown' = ListenerError(FirstThrower(e))
            /\ \A k \in DOMAIN events[e].listeners :
                 LET l == events[e].listeners[k]
                 IN  calls'[l] = IF l <= FirstThrower(e) THEN UpTo(calls[l], MaxCalls)
                                 ELSE calls[l]
            /\ UNCHANGED <<events, conditionalTriggers, listeners>>]_vars

\* Two single listeners on a, the first throws: two emits of a have each
\* called the first and ended with its error, the second was never called.
C23_Witness ==
  /\ Len(listeners) = 2
  /\ listeners[1].condition = "single" /\ listeners[2].condition = "single"
  /\ listeners[1].events = <<"a">> /\ listeners[2].events = <<"a">>
  /\ listeners[1].does = Throws /\ listeners[2].does = Returns
  /\ emits["a"] = 2
  /\ thrown = ListenerError(1)
  /\ calls = <<2, 0>>

(***************************************************************************)
(* C24.  The fired flag of an event never reverts: no on or emit call,     *)
(* whatever its listeners do (return, throw, emit), takes the bus from a   *)
(* state in which an event is fired to one in which it is not; in          *)
(* particular subscribing a single listener to a fired event leaves it     *)
(* fired.  An event is fired only if an emit of it was called.             *)
(***************************************************************************)
C24_FiredIsMonotonic ==
  /\ [](\A e \in EventNames : events[e].fired => emits[e] > 0)
  /\ [][\A e \in EventNames : events[e].fired => events'[e].fired]_vars

\* A single listener subscribed to a after a had fired, and a emitted again
\* afterwards: a is fired and the listener was never called.
C24_Witness ==
  /\ Len(listeners) = 2
  /\ listeners[2].condition = "single"
  /\ listeners[2].events = <<"a">>
  /\ ~listeners[2].early
  /\ events["a"].fired
  /\ emits["a"] = 2
  /\ seen.inner
  /\ calls[2] = 0

\* The position of the log at which the initialize hook of the index-th
\* descriptor was called, 0 if it was not.
CalledAt(index) ==
  IF \E k \in DOMAIN log : log[k] = Logged("initialize", supplied[index].name, index)
  THEN CHOOSE k \in DOMAIN log : log[k] = Logged("initialize", supplied[index].name, index)
  ELSE 0

(***************************************************************************)
(* C25.  When the initialize hook of a plugin is asynchronous, the         *)
(* Registry emits plugin.X.initialized and calls the initialize hook of    *)
(* the next plugin only after the hook has completed, its asynchronous     *)
(* tail included; the initialize hooks of two plugins are never in         *)
(* progress at the same time.                                              *)
(***************************************************************************)
C25_AsyncInitializeIsAwaited ==
  /\ \A index \in DOMAIN supplied :
       (supplied[index].initialize = "async" /\ CalledAt(index) # 0) =>
         \A j \in (CalledAt(index) + 1)..Len(log) :
           (\/ log[j] = Logged("emit", PluginEvent(supplied[index].name, "initialized"), 0)
            \/ log[j].kind = "initialize") =>
             \E q \in (CalledAt(index) + 1)..(j - 1) :
               log[q] = Logged("settled", supplied[index].name, index)
  /\ Cardinality({ index \in DOMAIN supplied : TailPending(index) }) <= 1

\* Two plugins with async initialize hooks: the constructor has returned,
\* plugin.X.initialized was emitted for both and core.initialized after them,
\* and neither hook has completed.
C25_Witness ==
  /\ built = "yes"
  /\ Len(supplied) = 2
  /\ supplied[1].initialize = "async" /\ supplied[2].initialize = "async"
  /\ TailPending(1) /\ TailPending(2)
  /\ EmitsOf(PluginEvent(supplied[1].name, "initialized")) # {}
  /\ EmitsOf(PluginEvent(supplied[2].name, "initialized")) # {}
  /\ log[Len(log)] = Logged("emit", "core.initialized", 0)

\* The trace of a first loop that called init of the first n plugins of order
\* and in which the init of the n-th threw.
InitsUpToFailure(order, n) ==
  [j \in 1..(2 * n) |->
     IF j = 2 * n THEN HookEvent("init", order[n].name, "throw")
     ELSE IF j % 2 = 1 THEN HookEvent("init", order[(j + 1) \div 2].name, "begin")
     ELSE HookEvent("init", order[j \div 2].name, "end")]

(***************************************************************************)
(* C26.  When the init hook of a plugin fails during Loader.start, start   *)
(* rejects with that hook's error; the init hooks of the plugins before it *)
(* in the resolved order have each been called once and have completed,    *)
(* the failed hook was called once, no init hook of a later plugin and no  *)
(* afterInitAll hook of any plugin has been called, and nothing more is    *)
(* called by this start call.                                              *)
(***************************************************************************)
C26_InitFailureStopsStart ==
  (pc = "failed" /\ error.kind = "hook" /\ error.hook = "init") =>
    /\ idx \in DOMAIN sorted
    /\ error = HookError("init", sorted[idx].name)
    /\ NamesOf(sorted) = ResolverOrder
    /\ trace = InitsUpToFailure(sorted, idx)
    /\ \A i \in DOMAIN sorted :
         /\ Count(InitBegun, sorted[i].name) = IF i <= idx THEN 1 ELSE 0
         /\ Count(AfterTested, sorted[i].name) = 0

\* Three plugins, the init of the second in the resolved order threw: the
\* first was initialized, the third was not, no afterInitAll was called.
C26_Witness ==
  /\ pc = "failed"
  /\ error.kind = "hook" /\ error.hook = "init"
  /\ Len(sorted) = 3
  /\ idx = 2
  /\ InitBegun = <<sorted[1].name, sorted[2].name>>
  /\ AfterTested = <<>>
  /\ registry[1].dependsOn # <<>>

(***************************************************************************)
(* C27.  Within one Loader, over every sequence of registerPlugin,         *)
(* registerPlugins and start calls, the init hook of a registered          *)
(* descriptor is called at most once and its afterInitAll hook at most     *)
(* once: no hook is called twice in one start call, and a start call does  *)
(* not call a hook that the start call before it has called.               *)
(***************************************************************************)
C27_HooksAtMostOncePerLoader ==
  /\ [](\A n \in Names : Count(InitBegun, n) <= 1 /\ Count(AfterBegun, n) <= 1)
  /\ [][\A n \in Names :
          ~IsPrefix(trace, trace') =>
            /\ Count(InitBegun, n) > 0 => Count(InitBegun', n) = 0
            /\ Count(AfterBegun, n) > 0 => Count(AfterBegun', n) = 0]_vars

(***************************************************************************)
(* C28.  The resolver keeps the input order where the dependencies leave   *)
(* it free: if X comes before Y in the input and Y is not a transitive     *)
(* dependency of X nor of a plugin that comes before X in the input, X     *)
(* comes before Y in the output; for a set in which no plugin has a        *)
(* dependency that is present the output order is the input order.         *)
(***************************************************************************)
C28_TieBreakIsInputOrder ==
  pc = "resolved" =>
    LET deps == Closure(Edges(registry))
    IN  /\ \A i, j \in DOMAIN registry :
             (/\ i < j
              /\ \A k \in 1..i : <<registry[k].name, registry[j].name>> \notin deps) =>
               StrictlyBefore(NamesOf(sorted), registry[i].name, registry[j].name)
        /\ Edges(registry) = {} => sorted = registry

\* The first of three plugins depends on the third, the second on nothing:
\* the third is moved to the front and the first stays before the second.
C28_Witness ==
  /\ pc = "resolved"
  /\ Len(registry) = 3
  /\ registry[1].dependsOn = <<Required(registry[3].name)>>
  /\ registry[2].dependsOn = <<>>
  /\ registry[3].dependsOn = <<>>
  /\ sorted = <<registry[3], registry[1], registry[2]>>

(***************************************************************************)
(* C29.  The path of a circular-dependency error is the traversal stack    *)
(* followed by the name of the dependency that closes the cycle: it begins *)
(* with a registered plugin, each name declares a dependency on the next,  *)
(* the last name occurs earlier in the path, and no name but the last      *)
(* occurs twice.                                                           *)
(***************************************************************************)
C29_CyclePathIsStackPlusClosingEdge ==
  (pc = "failed" /\ error.kind = "circular") =>
    LET path == error.path
        n == Len(path)
    IN  /\ n >= 2
        /\ RegistryHas(registry, path[1])
        /\ \A j \in 1..(n - 1) : <<path[j], path[j + 1]>> \in Edges(registry)
        /\ \E i \in 1..(n - 1) : path[i] = path[n]
        /\ \A i, j \in 1..(n - 1) : path[i] = path[j] => i = j

\* A plugin outside the cycle leads into it: the path holds the plugin and
\* then the cycle of the two others, four names in all.
C29_Witness ==
  /\ pc = "failed"
  /\ error.kind = "circular"
  /\ Len(error.path) = 4
  /\ error.path[1] = registry[1].name
  /\ error.path[2] = error.path[4]
  /\ error.path[1] # error.path[2]

(***************************************************************************)
(* C30.  Two Registry instances (and their Events instances) of one        *)
(* process are isolated: a constructor, on or emit call on one of them     *)
(* leaves the fired flags, the listener lists, the pending triggers and    *)
(* the plugin table of the other as they were and calls no listener        *)
(* function subscribed on the other.                                       *)
(***************************************************************************)
\* A call on the id-th instance.
StepOf(id) ==
  \/ \E k \in 0..1 : \E plugins \in [1..k -> TwoPlugins] : NewRegistryOf(id, plugins)
  \/ \E condition \in TwoConditions : \E evs \in TwoEventLists :
       \E does \in TwoBehaviours : OnOf(id, condition, evs, does)
  \/ \E e \in TwoEvents : EmitOf(id, e)

FirstKept == UNCHANGED <<events, conditionalTriggers, listeners, calls, pluginTable>>

OtherKept ==
  /\ other'.bus.events = other.bus.events
  /\ other'.bus.triggers = other.bus.triggers
  /\ other'.bus.subs = other.bus.subs
  /\ other'.bus.calls = other.bus.calls
  /\ other'.plugins = other.plugins

C31_RejectedDuplicateChangesNothing ==
  (built = "failed" /\ \E n \in Names : thrown = DuplicateName(n)) =>
    LET j == SecondOfPair(supplied)
        i == FirstOfPair(supplied)
    IN  /\ j # 0
        /\ thrown = DuplicateName(supplied[j].name)
        /\ \E k \in DOMAIN pluginTable : pluginTable[k] = supplied[i]
        /\ \A k \in DOMAIN pluginTable :
             pluginTable[k].name = supplied[j].name => pluginTable[k] = supplied[i]
        /\ Len(pluginTable) = j - 1
        /\ ~\E k \in DOMAIN log : log[k] = Logged("register", supplied[j].name, j)
        /\ ~\E k \in DOMAIN log : log[k].kind \in {"emit", "initialize"}
        /\ \A e \in CoreEvents : ~events[e].fired /\ emits[e] = 0

\* Three descriptors, the third under the name of the first with other hooks:
\* the table holds the first two, and of the hooks only the register hook of
\* the first was called.
C31_Witness ==
  /\ built = "failed"
  /\ Len(supplied) = 3
  /\ supplied[3].name = supplied[1].name
  /\ supplied[2].name # supplied[1].name
  /\ supplied[3] # supplied[1]
  /\ supplied[1].register.present /\ supplied[3].register.present
  /\ supplied[3].initialize = "returns"
  /\ ~supplied[2].register.present
  /\ thrown = DuplicateName(supplied[3].name)
  /\ pluginTable = <<supplied[1], supplied[2]>>
  /\ log = <<Logged("register", supplied[1].name, 1)>>

(***************************************************************************)
(* C32.  Whenever sortByDependencies succeeds its output is a permutation  *)
(* of its input: it has the length of the input, every supplied plugin is  *)
(* at exactly one position of it and every position holds a supplied       *)
(* plugin, whatever the dependsOn lists (shared dependencies, repeated     *)
(* entries, absent optional dependencies).                                 *)
(***************************************************************************)
C32_OutputIsPermutationOfInput ==
  pc = "resolved" =>
    /\ Len(sorted) = Len(registry)
    /\ \A i \in DOMAIN registry :
         Cardinality({k \in DOMAIN sorted : sorted[k] = registry[i]}) = 1
    /\ \A k \in DOMAIN sorted : \E i \in DOMAIN registry : sorted[k] = registry[i]

\* The third plugin is a dependency of the first twice over and of the second.
C32_Witness ==
  /\ pc = "resolved"
  /\ Len(registry) = 3
  /\ registry[1].dependsOn = <<[name |-> registry[3].name, optional |-> FALSE],
                               [name |-> registry[3].name, optional |-> FALSE]>>
  /\ registry[2].dependsOn = <<[name |-> registry[3].name, optional |-> TRUE]>>
  /\ sorted = <<registry[3], registry[1], registry[2]>>

\* A plugin whose optional dependency is absent, after one without dependencies.
C32_WitnessAbsentOptional ==
  /\ pc = "resolved"
  /\ Len(registry) = 2
  /\ Len(registry[2].dependsOn) = 1
  /\ registry[2].dependsOn[1].optional
  /\ ~RegistryHas(registry, registry[2].dependsOn[1].name)
  /\ sorted = registry

(***************************************************************************)
(* C33.  A single listener subscribed to an event that has already fired   *)
(* is not called during the subscribing call and is not called by any      *)
(* later emit of that event: it is never called.                           *)
(***************************************************************************)
C33_LateSingleListenerNeverCalled ==
  \A l \in DOMAIN listeners :
    (listeners[l].condition = "single" /\ listeners[l].late) => calls[l] = 0

\* Event a was emitted once and had fired when the listener was subscribed,
\* and was emitted again afterwards.
C33_Witness ==
  /\ Len(listeners) = 1
  /\ listeners[1].condition = "single"
  /\ listeners[1].events = <<"a">>
  /\ listeners[1].late
  /\ listeners[1].emitted = <<1>>
  /\ emits["a"] = 2
  /\ events["a"].fired
  /\ events["a"].listeners = <<1>>
  /\ calls[1] = 0

(***************************************************************************)
(* C34.  If a single listener throws during an emit of an event that has   *)
(* not fired, the event is left not fired and the pending any/all triggers *)
(* are not evaluated (none is removed, none of their listeners is called); *)
(* a later emit of the same event calls the single listeners of the event  *)
(* again from the first, those that ran before the failure included, up to *)
(* the first that throws this time, and marks the event fired if none      *)
(* does.                                                                   *)
(***************************************************************************)
\* The listeners of e an emit of e calls now: those up to the first that has
\* yet to throw.
CalledByEmit(e) ==
  LET ls == events[e].listeners
      fails(k) == listeners[ls[k]].does = ThrowsFirst /\ calls[ls[k]] = 0
  IN  { ls[k] : k \in { k \in DOMAIN ls : \A j \in 1..(k - 1) : ~fails(j) } }

\* A listener of e has yet to throw.
SomeFails(e) ==
  \E l \in CalledByEmit(e) : listeners[l].does = ThrowsFirst /\ calls[l] = 0

C34_CutEmitLeavesEventUnfired ==
  [][\A e \in CutEvents :
       (~events[e].fired /\ emits'[e] # emits[e]) =>
         /\ \A l \in DOMAIN listeners :
              (listeners[l].condition = "single" /\ listeners[l].events = <<e>>) =>
                calls'[l] = IF l \in CalledByEmit(e) THEN UpTo(calls[l], MaxCalls)
                            ELSE calls[l]
         /\ SomeFails(e) =>
              /\ thrown'.kind = "listener"
              /\ e \in seen'.cut
              /\ UNCHANGED <<events, conditionalTriggers>>
              /\ \A l \in DOMAIN listeners :
                   listeners[l].condition \in {"any", "all"} => calls'[l] = calls[l]
         /\ ~SomeFails(e) => events'[e].fired]_vars

\* Three single listeners on a, the second throws when first called: the
\* first emit of a called the first and the second, the next emit called all
\* three and the event fired.
C34_Witness ==
  /\ Len(listeners) = 3
  /\ \A l \in 1..3 : listeners[l].condition = "single" /\ listeners[l].events = <<"a">>
  /\ listeners[1].does = Returns
  /\ listeners[2].does = ThrowsFirst
  /\ listeners[3].does = Returns
  /\ "a" \in seen.cut
  /\ emits["a"] = 2
  /\ calls = <<2, 2, 1>>
  /\ events["a"].fired

\* A trigger over b whose condition holds is pending (the evaluation after the
\* emit of b was ended by the listener of another trigger); the emit of a that
\* the single listener of a ended has not called its listener.
C34_WitnessTriggersSkipped ==
  /\ Len(listeners) = 3
  /\ listeners[1].condition = "any" /\ listeners[1].events = <<"b">>
  /\ listeners[1].does = ThrowsFirst
  /\ listeners[2].condition = "all" /\ listeners[2].events = <<"b">>
  /\ listeners[3].condition = "single" /\ listeners[3].events = <<"a">>
  /\ listeners[3].does = ThrowsFirst
  /\ events["b"].fired /\ ~events["a"].fired
  /\ "a" \in seen.cut
  /\ calls = <<1, 0, 1>>
  /\ Len(conditionalTriggers) = 2

(***************************************************************************)
(* C35.  A dependency marked optional that is present in the supplied set  *)
(* is treated like a required one: when the resolver succeeds it is        *)
(* ordered before the plugin that declares it, and when it lies on a cycle *)
(* the resolver fails, with the circular-dependency error unless a         *)
(* required dependency is missing as well.                                 *)
(***************************************************************************)
\* <<p, d>>: p declares d as an optional dependency and d is supplied.
OptionalEdges(reg) ==
  UNION { { <<reg[i].name, reg[i].dependsOn[k].name>> :
              k \in { k \in DOMAIN reg[i].dependsOn :
                        /\ reg[i].dependsOn[k].optional
                        /\ RegistryHas(reg, reg[i].dependsOn[k].name) } } :
          i \in DOMAIN reg }

\* An optional edge lies on a cycle of the dependency graph.
CycleThroughOptional(reg) ==
  \E e \in OptionalEdges(reg) :
    e[1] = e[2] \/ <<e[2], e[1]>> \in Closure(Edges(reg))

C35_PresentOptionalIsRequired ==
  /\ pc = "resolved" =>
       /\ \A e \in OptionalEdges(registry) : StrictlyBefore(NamesOf(sorted), e[2], e[1])
       /\ ~CycleThroughOptional(registry)
  /\ (pc = "failed" /\ CycleThroughOptional(registry)) =>
       /\ error.kind \in {"circular", "missing"}
       /\ NoMissingRequired(registry) => error.kind = "circular"

\* Two plugins depend on each other, one of the two edges is optional.
C35_Witness ==
  /\ pc = "failed"
  /\ Len(registry) = 2
  /\ registry[1].dependsOn = <<Optional(registry[2].name)>>
  /\ registry[2].dependsOn = <<Required(registry[1].name)>>
  /\ error = CircularError(<<registry[1].name, registry[2].name>>, registry[1].name)

(***************************************************************************)
(* C36.  With an empty list of watched events, an `all` subscription has   *)
(* its listener called during the subscribing call, exactly once, and an   *)
(* `any` subscription is never fired: whatever emit and on calls are made, *)
(* its listener has not been called, and its trigger stays pending unless  *)
(* a later `any` subscription with the empty list has taken its place.     *)
(* (The `all` half is read for calls in which nothing was thrown; exactly  *)
(* once for listeners that do not emit.)                                   *)
(***************************************************************************)
C36_EmptyAllFiresAtOnceEmptyAnyNever ==
  \A l \in DOMAIN listeners :
    listeners[l].events = <<>> =>
      /\ listeners[l].condition = "all" =>
           /\ ~seen.threw => (calls[l] >= 1 /\ ~Pending(l))
           /\ PlainCallsOnly => calls[l] = 1
      /\ listeners[l].condition = "any" =>
           /\ calls[l] = 0
           /\ l \notin seen.displaced => Pending(l)

\* An `any` and an `all` subscription with the empty list, then two emits of
\* a: the listener of `all` was called once, the listener of `any` never, and
\* the trigger of `any` is the one pending.
C36_Witness ==
  /\ Len(listeners) = 2
  /\ listeners[1].condition = "any" /\ listeners[1].events = <<>>
  /\ listeners[2].condition = "all" /\ listeners[2].events = <<>>
  /\ listeners[1].does = Returns /\ listeners[2].does = Returns
  /\ emits["a"] = 2 /\ events["a"].fired
  /\ thrown = NoError
  /\ calls = <<0, 1>>
  /\ Len(conditionalTriggers) = 1
  /\ conditionalTriggers[1].listener = 1

====
